------------------------------ MODULE StoreRam ------------------------------
(***************************************************************************)
(* One store server: its blocks, its high-water marks and the counter      *)
(* ram_used, under write_block, delete_block and replicate handlers that   *)
(* the tokio threads run at the same time.  Nothing spans a handler: each  *)
(* DashMap call and each operation on the atomic counter is a step of its  *)
(* own, and other handlers run in between.                                 *)
(*                                                                         *)
(* A block is its length; ram_used is a u64 and wraps, as do the           *)
(* fetch_add, fetch_sub and + of a release build.                          *)
(***************************************************************************)
EXTENDS Integers, FiniteSetsExt

CONSTANTS
  Tasks,        \* bound: handlers that run at the same time
  Blocks,       \* logical blocks, (ino, block_idx)
  Generations,  \* bound: the generations a BlockKey carries
  Lens,         \* bound: lengths of a block, in units of Budget
  Budget,       \* StoreState.ram_budget
  Width,        \* ram_used counts modulo Width (2^64)
  MaxLeaked     \* bound: no replicate arrives once more has been counted twice

ASSUME StoreAssumption ==
  /\ IsFiniteSet(Tasks) /\ Tasks # {}
  /\ IsFiniteSet(Blocks)
  /\ IsFiniteSet(Generations) /\ Generations \subseteq Nat
  /\ IsFiniteSet(Lens) /\ Lens \subseteq Nat \ {0} /\ Lens # {}
  /\ Budget \in Nat
  /\ Width \in Nat \ {0}
  /\ MaxLeaked \in Nat

Keys == Blocks \X Generations

(* The memory of a machine is far smaller than 2^64: the counter would hold
   every block, a length for each handler and what it may count twice. *)
ASSUME RoomAssumption ==
  (Cardinality(Keys) + 2 * Cardinality(Tasks) + 1) * Max(Lens) + MaxLeaked < Width

NoMark == -1
Call == [key : Keys, len : Lens \cup {0}, prev : Lens \cup {0}]
Steps == {"idle", "mark", "budget", "insert", "add", "sub", "advance",
          "remove", "give_back", "unmark", "fetch", "take", "put"}

VARIABLES
  blocks,      \* StoreState.blocks: the length of each block, 0 if absent
  high_water,  \* StoreState.high_water
  ram_used,    \* StoreState.ram_used
  pc,          \* the next step of each handler
  call         \* its key, the length it stores and the length it found

(* History: the bytes replicate has counted twice, the blocks that came with
   replicate, and the logical blocks whose mark a delete has removed. *)
VARIABLES leaked, copied, unmarked

history == <<leaked, copied, unmarked>>
vars == <<blocks, high_water, ram_used, pc, call, history>>

(* The shape of the state; ram_used and the sums made of it stay within the
   counter's width. *)
TypeOK ==
  /\ blocks \in [Keys -> Lens \cup {0}]
  /\ high_water \in [Blocks -> Generations \cup {NoMark}]
  /\ ram_used \in 0 .. Width - 1
  /\ pc \in [Tasks -> Steps]
  /\ call \in [Tasks -> Call \cup {<<>>}]
  /\ leaked \in Nat
  /\ copied \subseteq Keys
  /\ unmarked \subseteq Blocks

Init ==
  /\ blocks = [k \in Keys |-> 0]
  /\ high_water = [b \in Blocks |-> NoMark]
  /\ ram_used = 0
  /\ pc = [t \in Tasks |-> "idle"]
  /\ call = [t \in Tasks |-> <<>>]
  /\ leaked = 0
  /\ copied = {}
  /\ unmarked = {}
-----------------------------------------------------------------------------
Goto(t, s) == pc' = [pc EXCEPT ![t] = s]

Return(t) == Goto(t, "idle") /\ call' = [call EXCEPT ![t] = <<>>]

Arrive(t, s, lens) ==
  /\ pc[t] = "idle"
  /\ Goto(t, s)
  /\ \E k \in Keys, n \in lens :
       call' = [call EXCEPT ![t] = [key |-> k, len |-> n, prev |-> 0]]
  /\ UNCHANGED <<blocks, high_water, ram_used, history>>

write_block(t) == Arrive(t, "mark", Lens)
delete_block(t) == Arrive(t, "remove", {0})
replicate(t) == leaked <= MaxLeaked /\ Arrive(t, "fetch", Lens)
-----------------------------------------------------------------------------
(* write_block, lines 49-54: a generation below the mark is refused. *)
TestMark(t) ==
  LET k == call[t].key
  IN  /\ pc[t] = "mark"
      /\ \/ k[2] >= high_water[k[1]] /\ Goto(t, "budget") /\ UNCHANGED call
         \/ k[2] < high_water[k[1]] /\ Return(t)
      /\ UNCHANGED <<blocks, high_water, ram_used, history>>

(* Mutation of Fits: the block alone is held against the budget. *)
FitsAlone(n) == n <= Budget

(* Line 57: the sum wraps as the counter does. *)
Fits(n) == (ram_used + n) % Width <= Budget

TestBudget(t) ==
  /\ pc[t] = "budget"
  /\ \/ Fits(call[t].len) /\ Goto(t, "insert") /\ UNCHANGED call
     \/ ~Fits(call[t].len) /\ Return(t)
  /\ UNCHANGED <<blocks, high_water, ram_used, history>>

InsertBlock(t) ==
  LET k == call[t].key
  IN  /\ pc[t] = "insert"
      /\ blocks' = [blocks EXCEPT ![k] = call[t].len]
      /\ call' = [call EXCEPT ![t].prev = blocks[k]]
      /\ copied' = copied \ {k}
      /\ Goto(t, "add")
      /\ UNCHANGED <<high_water, ram_used, leaked, unmarked>>

AddLen(t) ==
  /\ pc[t] = "add"
  /\ ram_used' = (ram_used + call[t].len) % Width
  /\ Goto(t, "sub")
  /\ UNCHANGED <<blocks, high_water, call, history>>

(* Mutation of LessPrev: the counter does not wrap. *)
LessPrevSigned(t) == ram_used - call[t].prev

(* fetch_sub: what is left of the counter without the previous block. *)
LessPrev(t) == (ram_used - call[t].prev) % Width

SubPrev(t) ==
  /\ pc[t] = "sub"
  /\ ram_used' = LessPrev(t)
  /\ Goto(t, "advance")
  /\ UNCHANGED <<blocks, high_water, call, history>>

(* Mutation of AdvanceMark: the mark takes whatever generation comes last. *)
AdvanceMarkBlindly(t) ==
  /\ pc[t] = "advance"
  /\ high_water' = [high_water EXCEPT ![call[t].key[1]] = call[t].key[2]]
  /\ Return(t)
  /\ UNCHANGED <<blocks, ram_used, history>>

AdvanceMark(t) ==
  LET k == call[t].key
  IN  /\ pc[t] = "advance"
      /\ high_water' = [high_water EXCEPT ![k[1]] = IF k[2] > @ THEN k[2] ELSE @]
      /\ Return(t)
      /\ UNCHANGED <<blocks, ram_used, history>>
-----------------------------------------------------------------------------
(* Mutation of RemoveBlock: the length is read before the block is removed,
   in a step of its own. *)
RemoveLater(t) ==
  /\ pc[t] = "remove"
  /\ \/ /\ call[t].prev = 0
        /\ call' = [call EXCEPT ![t].prev = blocks[call[t].key]]
        /\ IF blocks[call[t].key] = 0 THEN Goto(t, "unmark") ELSE UNCHANGED pc
        /\ UNCHANGED blocks
     \/ /\ call[t].prev # 0
        /\ blocks' = [blocks EXCEPT ![call[t].key] = 0]
        /\ Goto(t, "give_back")
        /\ UNCHANGED call
  /\ UNCHANGED <<high_water, ram_used, history>>

(* delete_block, lines 86-91. *)
RemoveBlock(t) ==
  LET k == call[t].key
  IN  /\ pc[t] = "remove"
      /\ blocks' = [blocks EXCEPT ![k] = 0]
      /\ call' = [call EXCEPT ![t].prev = blocks[k]]
      /\ copied' = copied \ {k}
      /\ Goto(t, IF blocks[k] = 0 THEN "unmark" ELSE "give_back")
      /\ UNCHANGED <<high_water, ram_used, leaked, unmarked>>

GiveBack(t) ==
  /\ pc[t] = "give_back"
  /\ ram_used' = LessPrev(t)
  /\ Goto(t, "unmark")
  /\ UNCHANGED <<blocks, high_water, call, history>>

RemoveMark(t) ==
  /\ pc[t] = "unmark"
  /\ high_water' = [high_water EXCEPT ![call[t].key[1]] = NoMark]
  /\ unmarked' = unmarked \cup {call[t].key[1]}
  /\ Return(t)
  /\ UNCHANGED <<blocks, ram_used, leaked, copied>>
-----------------------------------------------------------------------------
(* replicate: the block is read from another store, which may fail; it is
   then counted and stored, whatever was stored before it. *)
FetchBlock(t) ==
  /\ pc[t] = "fetch"
  /\ \/ Goto(t, "take") /\ UNCHANGED call
     \/ Return(t)
  /\ UNCHANGED <<blocks, high_water, ram_used, history>>

TakeLen(t) ==
  /\ pc[t] = "take"
  /\ ram_used' = (ram_used + call[t].len) % Width
  /\ Goto(t, "put")
  /\ UNCHANGED <<blocks, high_water, call, history>>

PutBlock(t) ==
  LET k == call[t].key
  IN  /\ pc[t] = "put"
      /\ blocks' = [blocks EXCEPT ![k] = call[t].len]
      /\ leaked' = leaked + blocks[k]
      /\ copied' = copied \cup {k}
      /\ Return(t)
      /\ UNCHANGED <<high_water, ram_used, unmarked>>

Next ==
  \E t \in Tasks :
    \/ write_block(t) \/ TestMark(t) \/ TestBudget(t) \/ InsertBlock(t)
    \/ AddLen(t) \/ SubPrev(t) \/ AdvanceMark(t)
    \/ delete_block(t) \/ RemoveBlock(t) \/ GiveBack(t) \/ RemoveMark(t)
    \/ replicate(t) \/ FetchBlock(t) \/ TakeLen(t) \/ PutBlock(t)

Spec == Init /\ [][Next]_vars
-----------------------------------------------------------------------------
Total(f) == FoldFunction(+, 0, f)

(* What a handler has done to the blocks and not yet to the counter. *)
Due(t) ==
  CASE pc[t] = "add" -> call[t].prev - call[t].len
    [] pc[t] \in {"sub", "give_back"} -> call[t].prev
    [] pc[t] = "put" -> call[t].len
    [] OTHER -> 0

(* ram_used is the length of the stored blocks, apart from what running
   handlers have still to add or subtract and from what replicate counted
   twice: no interleaving of write_block, delete_block and replicate loses or
   invents a byte. *)
Accounting ==
  ram_used = (Total(blocks) + Total([t \in Tasks |-> Due(t)]) + leaked) % Width

(* The blocks that write_block stored. *)
Written == [k \in Keys |-> IF k \in copied THEN 0 ELSE blocks[k]]

(* Check-then-insert lets write_block take the store over its budget, but by
   no more than one block for each other handler that runs at the same time.
   replicate makes no such test; its blocks are not counted here. *)
OverBudgetBounded ==
  Total(Written) <= Budget + (Cardinality(Tasks) - 1) * Max(Lens)

(* The mark of a logical block is at least the generation of each of its
   blocks whose write_block has ended, in whatever order racing writers
   advance it; a delete, which removes the mark, is the exception. *)
MarkCovers ==
  \A k \in Keys :
    (/\ Written[k] # 0
     /\ k[1] \notin unmarked
     /\ \A t \in Tasks : pc[t] \in {"add", "sub", "advance"} => call[t].key # k)
    => high_water[k[1]] >= k[2]
=============================================================================
