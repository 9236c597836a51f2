------------------------------ MODULE ReadDir ------------------------------
(***************************************************************************)
(* A mount lists a directory while others change the tree: the readdir     *)
(* handler of fs.rs over Meta.ReadDir.  The kernel asks for the entries    *)
(* from an offset on, as many as its buffer takes.  The handler fetches    *)
(* the whole directory each time, page by page with the last name as the   *)
(* cookie, and skips as many entries as the offset says; an offset is thus *)
(* an index into a directory that may have changed since the last call.    *)
(***************************************************************************)
EXTENDS Namespace, Sequences, Functions

CONSTANTS
  MaxEntries,  \* max_entries of ReadDirReq
  Room         \* bound: the entries one reply to the kernel holds

ASSUME ListingAssumption ==
  Names \subseteq Nat \ {0} /\ MaxEntries \in Nat \ {0} /\ Room \in Nat \ {0}

Start == 0  \* the empty cookie; a name, compared by its bytes, is a number

VARIABLES
  stage,    \* closed, open, paging (in the handler), ended
  dir,      \* the directory that is listed
  entries,  \* the handler's entries
  cookie,   \* the handler's cookie
  listed    \* the entries the application has been given; their number is
            \* the offset of the next call

(* History: the entries there have been all along since opendir, and whether
   an entry was removed, or added, since. *)
VARIABLES steady, removed, added

listVars == <<stage, dir, entries, cookie, listed>>
seenVars == <<steady, removed, added>>
allVars == <<vars, listVars, seenVars>>

EntriesOf(d) == IF d \in DOMAIN dirs THEN DOMAIN dirs[d] ELSE {}

ListInit ==
  /\ Init
  /\ stage = "closed" /\ dir = Root
  /\ entries = <<>> /\ cookie = Start /\ listed = <<>>
  /\ steady = {} /\ removed = FALSE /\ added = FALSE

opendir(d) ==
  /\ stage = "closed"
  /\ stage' = "open" /\ dir' = d
  /\ steady' = EntriesOf(d)
  /\ UNCHANGED <<vars, entries, cookie, listed, removed, added>>

readdir ==
  /\ stage = "open"
  /\ stage' = "paging"
  /\ UNCHANGED <<vars, dir, entries, cookie, listed, seenVars>>

(* The place of n among the names of S, in the order of the names. *)
Rank(S, n) == Cardinality({m \in S : m <= n})

Least(a, b) == IF a <= b THEN a ELSE b

(* Meta.ReadDir: the names after the cookie, in order, at most MaxEntries. *)
Page ==
  LET rest == {n \in EntriesOf(dir) : n > cookie}
  IN  [i \in 1 .. Least(Cardinality(rest), MaxEntries) |->
         CHOOSE n \in rest : Rank(rest, n) = i]

(* Mutation of Eof: a full page counts as the last. *)
EofWhenFull == Len(Page) <= MaxEntries

Eof == Len(Page) < MaxEntries

read_dir ==
  /\ stage = "paging" /\ dir \in DOMAIN dirs /\ ~Eof
  /\ entries' = entries \o Page
  /\ cookie' = Page[Len(Page)]
  /\ UNCHANGED <<vars, stage, dir, listed, seenVars>>

(* Mutation of Reply: an entry's offset is its own index, not the next. *)
ReplyAgain(all) ==
  SubSeq(all, IF listed = <<>> THEN 1 ELSE Len(listed),
         Least(Len(all), Len(listed) + Room))

(* The reply: what comes after the offset, as far as there is room; nothing,
   and the listing has ended. *)
Reply(all) == SubSeq(all, Len(listed) + 1, Least(Len(all), Len(listed) + Room))

LastPage ==
  /\ stage = "paging" /\ dir \in DOMAIN dirs /\ Eof
  /\ LET reply == Reply(entries \o Page)
     IN  /\ listed' = listed \o reply
         /\ stage' = IF reply = <<>> THEN "ended" ELSE "open"
  /\ entries' = <<>> /\ cookie' = Start
  /\ UNCHANGED <<vars, dir, seenVars>>

Close ==
  /\ stage' = "closed" /\ dir' = Root
  /\ entries' = <<>> /\ cookie' = Start /\ listed' = <<>>
  /\ steady' = {} /\ removed' = FALSE /\ added' = FALSE
  /\ UNCHANGED vars

(* The directory is gone: NotFound. *)
ListingFails == stage = "paging" /\ dir \notin DOMAIN dirs /\ Close

releasedir == stage \in {"open", "ended"} /\ Close

(* A request of the mount that changes the tree. *)
Change ==
  /\ Next
  /\ UNCHANGED listVars
  /\ steady' = steady \cap EntriesOf(dir)'
  /\ removed' = (stage # "closed" /\ (removed \/ EntriesOf(dir) \ EntriesOf(dir)' # {}))
  /\ added' = (stage # "closed" /\ (added \/ EntriesOf(dir)' \ EntriesOf(dir) # {}))

ListNext ==
  \/ \E d \in DOMAIN dirs : opendir(d)
  \/ readdir \/ read_dir \/ LastPage \/ ListingFails \/ releasedir
  \/ Change

ListSpec == ListInit /\ [][ListNext]_allVars
-----------------------------------------------------------------------------
(* While nothing is removed from the directory, a listing that has run to its
   end gives every entry that was there all along, whatever is added between
   the calls of the kernel and between the pages of the handler.  (After a
   removal the offset points too far, and an entry is left out.) *)
ListsAll == stage = "ended" /\ ~removed => steady \subseteq Range(listed)

(* While nothing is added, no entry is given twice, whatever is removed. *)
ListsOnce == ~added => IsInjective(listed)
=============================================================================
