---------------------------- MODULE Destination ----------------------------
(***************************************************************************)
(* What the settings pages of one workspace share on the server: the       *)
(* GoogleSheetConfig rows, of which one is active, with what hangs on them *)
(* (FieldMapping, SyncRule, SyncFilter), the saved configuration, and the  *)
(* runs, of which the queue lets one go on at a time (Workspace).  What    *)
(* belongs to the workspace itself (AutomationSetting, User and            *)
(* UserPreference) is kept beside them under the place None.               *)
(*                                                                         *)
(* A list of mappings or rules is a set of marks: "a" are the rows that    *)
(* the columns suggest, "bad" is one that may not be saved, such as a      *)
(* column mapped twice.                                                    *)
(***************************************************************************)
EXTENDS Naturals

CONSTANTS
    Books,      \* spreadsheets; each has one worksheet that can be chosen
    Tabs,       \* browser tabs
    Kinds,      \* what can be edited
    MaxRuns,    \* bound: runs ever started
    None

OfDestination == {"mapping", "rules", "filters", "options"}
OfWorkspace   == {"automation", "profile", "preferences", "security"}

ASSUME DestinationAssumption ==
    /\ {"mapping", "automation"} \subseteq Kinds
    /\ Kinds \subseteq OfDestination \cup OfWorkspace
    /\ MaxRuns \in Nat
    /\ None \notin Books \cup Nat \cup OfDestination \cup OfWorkspace

\* What a run is asked for: the date range, the rows and the mode.
Options == {"default", "other"}

Rows == {{}, {"a"}, {"a", "bad"}}
Runs == 1 .. MaxRuns
Places == Books \cup {None}

VARIABLES
    active,     \* the book of the row with isActive
    confirmed,  \* bulkSyncConfirmedAt, by book
    stored,     \* what is stored, by kind and place
    saved,      \* the rows of the saved configuration
    run,        \* the runs
    written,    \* books that a run has written to
    seen        \* the previews that were shown: the book, the options

serverVars == <<active, confirmed, stored, saved, run, written, seen>>

\* shown: the book on the page that started the run, None for a schedule;
\* book: the one it was planned for.
Run == [pc: {"absent", "import", "write", "done"}, confirmed: BOOLEAN, opts: Options,
        shown: Books \cup {None}, book: Books \cup {None}]
NoRun == [pc |-> "absent", confirmed |-> FALSE, opts |-> "default", shown |-> None, book |-> None]

ServerTypeOK ==
    /\ active \in Books \cup {None}
    /\ confirmed \in [Books -> BOOLEAN]
    /\ stored \in [Kinds -> [Places -> Rows]]
    /\ saved \in Rows \cup {None}
    /\ run \in [Runs -> Run]
    /\ written \subseteq Books /\ seen \subseteq Books \X Options

ServerInit(kept) ==
    /\ active = None
    /\ confirmed = [b \in Books |-> FALSE]
    /\ stored = [k \in Kinds |-> [b \in Places |-> kept]]
    /\ saved = None
    /\ run = [r \in Runs |-> NoRun]
    /\ written = {} /\ seen = {}

-----------------------------------------------------------------------------
(* POST /api/sheet-config.  The headers are read from Google before; the   *)
(* rows are switched in one transaction, the columns stored in a second.   *)

Select(b) ==
    /\ active' = b
    /\ UNCHANGED <<confirmed, stored, saved, run, written, seen>>

\* The place of that list or form, None also for want of a destination.
Place(k) == IF k \in OfWorkspace THEN None ELSE active

\* Whether there is one.
Placed(k) == k \in OfWorkspace \/ active # None

\* A scheduled run fails once too often: the worker turns the schedule off.
Paused ==
    /\ stored' = [stored EXCEPT !["automation"][None] = {}]
    /\ UNCHANGED <<active, confirmed, saved, run, written, seen>>

-----------------------------------------------------------------------------
(* Runs: POST /api/sync, the worker, and runSheetSync.                     *)

Running == {r \in Runs : run[r].pc \in {"import", "write"}}
Done(r) == run[r].pc = "done"
Fresh   == {r \in Runs : run[r].pc = "absent" /\ \A s \in Runs : s < r => run[s].pc # "absent"}

\* A run that was let in, with the flag and the options of the request.
Started(r, flag, book, opts) ==
    [run EXCEPT ![r] = [NoRun EXCEPT !.pc = "import", !.confirmed = flag,
                                     !.shown = book, !.opts = opts]]

\* A schedule "is itself the confirmation".
StartScheduled ==
    /\ Running = {} /\ active # None
    /\ \E r \in Fresh : run' = Started(r, TRUE, None, "default")
    /\ UNCHANGED <<active, confirmed, stored, saved, written, seen>>

Ended(r) == run' = [run EXCEPT ![r] = [NoRun EXCEPT !.pc = "done"]]

\* planSync reads the destination that is active by then, and the run stops
\* at a blocker, for want of a confirmation, or with nothing to write.
Plan(r) ==
    /\ run[r].pc = "import"
    /\ \/ /\ active # None
          /\ "a" \in stored["mapping"][active]
          /\ confirmed[active] \/ run[r].confirmed
          /\ run' = [run EXCEPT ![r].pc = "write", ![r].book = active,
                                    ![r].confirmed = FALSE]
       \/ Ended(r)
    /\ UNCHANGED <<active, confirmed, stored, saved, written, seen>>

\* Mutant: the confirmation is noted on the active destination.
ConfirmedByActive(r) == active

\* The row that the plan was made for.
ConfirmedBy(r) == run[r].book

\* The batches and what is saved after them if one was written, or a crash in
\* between.
WriteRows(r) ==
    /\ run[r].pc = "write"
    /\ \/ /\ written' = written \cup {run[r].book}
          /\ \/ confirmed' = [confirmed EXCEPT ![ConfirmedBy(r)] = TRUE]
             \/ UNCHANGED confirmed
       \/ UNCHANGED <<written, confirmed>>
    /\ Ended(r)
    /\ UNCHANGED <<active, stored, saved, seen>>

RunStep(r) == Plan(r) \/ WriteRows(r)

-----------------------------------------------------------------------------
(* Properties.                                                             *)

Previewed(b) == \E o \in Options : <<b, o>> \in seen

\* A destination counts as confirmed only when a run has written to it,
\* although the active destination may change while a run goes on.
OnlyWrittenIsConfirmed == \A b \in Books : confirmed[b] => b \in written

\* A run that a page started writes for the first time only where that page
\* showed a preview, if the page's destination is still the active one.
ShownIsPreviewed ==
    \A r \in Runs :
        run[r].pc = "write" /\ run[r].shown = run[r].book
          => Previewed(run[r].book) \/ run[r].book \in written

\* Does not hold: "Until then the UI requires an explicit preview + confirm"
\* (bulkSyncConfirmedAt in schema.prisma).  The flag of a request is not tied
\* to a destination, and the run plans for the one that is active by then.
FirstWriteIsPreviewed ==
    \A r \in Runs :
        run[r].pc = "write" /\ run[r].shown # None
          => Previewed(run[r].book) \/ run[r].book \in written

\* Does not hold: the preview stays on the page when the options are changed
\* below it, and "Confirm and sync" sends the ones that are chosen now.
WrittenAsPreviewed ==
    \A r \in Runs :
        run[r].pc = "write" /\ run[r].shown = run[r].book
          => <<run[r].book, run[r].opts>> \in seen \/ run[r].book \in written
=============================================================================
