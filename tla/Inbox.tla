------------------------------- MODULE Inbox -------------------------------
(***************************************************************************)
(* One recipient's inbox: the rows of the database and what the drawer of  *)
(* a session shows of them.  A timer, the window's focus and the bell      *)
(* reload it; reading one notice, reading all and loading older ones       *)
(* change it; another tab reads notices meanwhile.  Every call is carried  *)
(* out in one step and answered in another, and may fail before or after   *)
(* it is carried out.                                                      *)
(***************************************************************************)
EXTENDS Integers, FiniteSetsExt, NoValue

CONSTANTS MaxNotices,  \* bound on the notices that arrive
          PageSize     \* notices on a page (p_limit)

VARIABLES arrived,     \* notices of the recipient, numbered as created_at orders them
          seen,        \* those with a read_at
          page,        \* what the drawer shows: notices, the read ones, next_cursor
          depth,       \* loadedDepth
          load,        \* the reload under way
          change       \* the mutation, or the older page, under way

inboxVars == <<arrived, seen, page, depth, load, change>>

Page(notices, marked, cursor) == [notices |-> notices, marked |-> marked, cursor |-> cursor]
Empty == Page({}, {}, None)

(* notification_inbox: the newest notices older than the cursor, whether    *)
(* they are read, and a cursor when there are more.                         *)
PageBefore(cursor) ==
  LET older == {n \in 1 .. arrived : cursor = None \/ n < cursor}
      shown == {n \in older : Cardinality({m \in older : m > n}) < PageSize} IN
    Page(shown, shown \cap seen, IF shown = older THEN None ELSE Min(shown))

Merged(first, older) ==
  Page(first.notices \cup older.notices,
       first.marked \cup (older.marked \ first.notices), first.cursor)

-----------------------------------------------------------------------------
(* The reload: page after page, as deep as was opened, shown all at once.   *)
(* current says that the revision it started with is still the drawer's.    *)

NoLoad == [at |-> "idle", current |-> FALSE, pages |-> 0, combined |-> Empty, answer |-> None]

Loading(pages, combined) ==
  [at |-> "asked", current |-> TRUE, pages |-> pages, combined |-> combined, answer |-> None]

NoChange == [kind |-> "none", at |-> "idle", of |-> None, answer |-> None]

LoadStarts ==
  /\ load = NoLoad
  /\ change = NoChange
  /\ load' = Loading(0, Empty)
  /\ UNCHANGED <<arrived, seen, page, depth, change>>

LoadReads ==
  /\ load.at = "asked"
  /\ load' = [load EXCEPT !.at = "answered", !.answer = PageBefore(load.combined.cursor)]
  /\ UNCHANGED <<arrived, seen, page, depth, change>>

(* MUTANT of LoadApplies: shown whatever overtook it.                      *)
LoadAppliesStale(combined, pages) ==
  /\ load' = NoLoad
  /\ page' = combined
  /\ depth' = pages

(* A reload that another revision overtook is dropped. *)
LoadApplies(combined, pages) ==
  /\ load' = NoLoad
  /\ IF load.current THEN page' = combined /\ depth' = pages
                     ELSE UNCHANGED <<page, depth>>

LoadAnswered ==
  /\ load.at = "answered"
  /\ LET combined == Merged(load.answer, load.combined)
         pages    == load.pages + 1 IN
       IF pages < depth /\ combined.cursor # None /\ load.current
         THEN load' = Loading(pages, combined) /\ UNCHANGED <<page, depth>>
         ELSE LoadApplies(combined, pages)
  /\ UNCHANGED <<arrived, seen, change>>

LoadFails == load # NoLoad /\ load' = NoLoad /\ UNCHANGED <<arrived, seen, page, depth, change>>

-----------------------------------------------------------------------------
(* One mutation, or older page, at a time; each overtakes a reload under    *)
(* way.                                                                     *)

Starts(kind, of) ==
  /\ change = NoChange
  /\ change' = [kind |-> kind, at |-> "asked", of |-> of, answer |-> None]
  /\ load' = [load EXCEPT !.current = FALSE]
  /\ UNCHANGED <<arrived, seen, page, depth>>

ReadOne(n)  == n \in page.notices /\ Starts("read", n)
ReadAll  == page # Empty /\ Starts("readAll", None)
Older    == page.cursor # None /\ Starts("older", page.cursor)

(* read_notification, read_all_notifications and the page before a cursor. *)
ChangeCarriedOut ==
  /\ change.at = "asked"
  /\ seen' = CASE change.kind = "read"    -> seen \cup {change.of}
               [] change.kind = "readAll" -> 1 .. arrived
               [] change.kind = "older"   -> seen
  /\ change' = [change EXCEPT !.at = "answered",
                              !.answer = IF change.kind = "older" THEN PageBefore(change.of) ELSE None]
  /\ UNCHANGED <<arrived, page, depth, load>>

ChangeAnswered ==
  /\ change.at = "answered"
  /\ \/ /\ change.kind = "read"
        /\ page' = [page EXCEPT !.marked = @ \cup {change.of}]
        /\ UNCHANGED depth
     \/ /\ change.kind = "readAll"
        /\ page' = [page EXCEPT !.marked = page.notices]
        /\ UNCHANGED depth
     \/ /\ change.kind = "older"
        /\ page' = Merged(change.answer, page)
        /\ depth' = depth + 1
  /\ change' = NoChange
  /\ UNCHANGED <<arrived, seen, load>>

ChangeFails ==
  /\ change # NoChange
  /\ change' = NoChange
  /\ UNCHANGED <<arrived, seen, page, depth, load>>

-----------------------------------------------------------------------------
(* The rest of the program notifies, and another tab reads. *)

Arrives == arrived < MaxNotices /\ arrived' = arrived + 1 /\ UNCHANGED <<seen, page, depth, load, change>>

OtherTabReads ==
  /\ \E n \in 1 .. arrived : seen' = seen \cup {n}
  /\ UNCHANGED <<arrived, page, depth, load, change>>

InboxInit ==
  /\ arrived \in 0 .. MaxNotices
  /\ seen = {}
  /\ page = Empty
  /\ depth = 1
  /\ load = NoLoad
  /\ change = NoChange

InboxNext ==
  \/ LoadStarts \/ LoadReads \/ LoadAnswered \/ LoadFails
  \/ \E n \in 1 .. MaxNotices : ReadOne(n)
  \/ ReadAll \/ Older \/ ChangeCarriedOut \/ ChangeAnswered \/ ChangeFails
  \/ Arrives \/ OtherTabReads

InboxSpec == InboxInit /\ [][InboxNext]_inboxVars

-----------------------------------------------------------------------------
(* Types: every variable stays in its domain. *)
Cursors == {None} \cup 1 .. MaxNotices

Pages == [notices : SUBSET (1 .. MaxNotices), marked : SUBSET (1 .. MaxNotices), cursor : Cursors]

InboxTypeOK ==
  /\ arrived \in 0 .. MaxNotices
  /\ seen \subseteq 1 .. MaxNotices
  /\ page \in Pages
  /\ depth \in 1 .. MaxNotices + 1
  /\ load \in [at : {"idle", "asked", "answered"}, current : BOOLEAN, pages : 0 .. MaxNotices,
               combined : Pages, answer : Pages \cup {None}]
  /\ change \in [kind : {"none", "read", "readAll", "older"}, at : {"idle", "asked", "answered"},
                 of : Cursors, answer : Pages \cup {None}]

(* A notice the drawer shows as read is read in the database and is never   *)
(* shown as unread again, whichever reload, older page, mutation or other   *)
(* tab was under way.                                                       *)
MarkedIsRead  == page.marked \subseteq seen
MarkStays     == page.marked \cap page'.notices \subseteq page'.marked
ReadStaysRead == []MarkedIsRead /\ [][MarkStays]_inboxVars
=============================================================================
