--------------------------- MODULE CompletedDates ----------------------------
(***************************************************************************)
(* The completed-date ledger of one owner: recording a date, and           *)
(* correcting one.  A request reads the ledger, lets the domain decide on  *)
(* what it read, and appends; the database decides again what a second     *)
(* request on the same key may add.  The count is derived from the log.    *)
(***************************************************************************)
EXTENDS Integers, FiniteSets

CONSTANTS
    Entries,        \* entry ids: the owner's retry tokens for dates
    Keys,           \* correction keys: the retry tokens for corrections
    Requests,       \* requests in flight at once; slots are reused
    Today,          \* the day of the requests; days are 1, 2, ...
    MaxSeq,         \* bound on the corrections inserted
    None            \* SQL NULL: no such row

ASSUME CompletedDatesAssumption ==
    {Today, MaxSeq} \subseteq Nat \ {0} /\ None \notin Requests \cup Nat

VARIABLES
    dates,          \* app.completed_dates by entry_id: the effective day
    corrections,    \* app.completed_date_corrections by entry and key
    seq,            \* the sequence behind corrections.seq
    req,            \* each request inside a handler
    claimed         \* history: the day each committed date was recorded with

vars == <<dates, corrections, seq, req, claimed>>

INSTANCE RowVersions WITH Nobody <- None

Tomorrow == Today + 1               \* any day in the future
Days == 1..Tomorrow
Kinds == {"withdrawn", "restated"}
CorrectionIds == Entries \X Keys
Correction == [kind : Kinds, day : 1..Today \cup {None}, superseded : 1..Today \cup {None},
               seq : 1..MaxSeq]

(* The corrections of an entry in a log, which is a function to rows or None. *)
Of(log, e) == {log[<<e, k>>] : k \in {x \in Keys : log[<<e, x>>] # None}}

(* isCounted, which completedDateCount counts by.                             *)
IsCounted_LastDecides(log) ==                   \* mutant: the last correction decides
    \A c \in log : (\A d \in log : d.seq <= c.seq) => c.kind # "withdrawn"
IsCounted(log) == \A c \in log : c.kind # "withdrawn"

-----------------------------------------------------------------------------
(* Requests *)

Places == {"idle", "entries", "corrections", "decide", "insert_date",
           "insert_correction", "move_day", "reply"}
Nothing == [known |-> FALSE, keys |-> {}, counted |-> TRUE]
SeenOfLedger == [known : BOOLEAN, keys : SUBSET Keys, counted : BOOLEAN]
RequestState == [op : Kinds \cup {"record"}, entry : Entries \cup {None}, key : Keys \cup {None},
                 day : Days \cup {None}, at : Places, seen : SeenOfLedger]
Idle == [op |-> "record", entry |-> None, key |-> None, day |-> None, at |-> "idle", seen |-> Nothing]

At(r, place) == req[r].at = place
Goto(r, place) == req' = [req EXCEPT ![r].at = place, ![r].seen = Nothing]
Id(r) == <<req[r].entry, req[r].key>>

Begin(r, op, e, k, day) ==
    /\ At(r, "idle")
    /\ req' = [req EXCEPT ![r] = [op |-> op, entry |-> e, key |-> k, day |-> day,
                                  at |-> "entries", seen |-> Nothing]]
    /\ UNCHANGED <<dates, corrections, seq, claimed>>

(* findLedger: the entries, then their corrections.                           *)
ReadEntries(r) ==
    /\ At(r, "entries")
    /\ req' = [req EXCEPT ![r].seen.known = Seen(dates, r)[req[r].entry] # None,
                          ![r].at = "corrections"]
    /\ UNCHANGED <<dates, corrections, seq, claimed>>

ReadCorrections(r) ==
    /\ At(r, "corrections")
    /\ LET log == Seen(corrections, r)
           e == req[r].entry
           keys == {k \in Keys : log[<<e, k>>] # None}
       IN req' = [req EXCEPT ![r].at = "decide",
                    ![r].seen.keys = IF req[r].seen.known THEN keys ELSE {},
                    ![r].seen.counted = req[r].seen.known => IsCounted(Of(log, e))]
    /\ UNCHANGED <<dates, corrections, seq, claimed>>

ValidDay(day) == day <= Today

(* recordCompletedDate: a retry is answered before its day is looked at, and  *)
(* the store is called for it too.                                            *)
DecideRecord(r) ==
    /\ At(r, "decide") /\ req[r].op = "record"
    /\ Goto(r, IF req[r].seen.known \/ ValidDay(req[r].day) THEN "insert_date" ELSE "reply")
    /\ UNCHANGED <<dates, corrections, seq, claimed>>

(* correctCompletedDate; only a correction it appended reaches the store.     *)
Appends(seen, op, key, day) ==
    /\ seen.known /\ key \notin seen.keys /\ seen.counted
    /\ op = "restated" => ValidDay(day)

DecideCorrect(r) ==
    /\ At(r, "decide") /\ req[r].op # "record"
    /\ Goto(r, IF Appends(req[r].seen, req[r].op, req[r].key, req[r].day)
                 THEN "insert_correction" ELSE "reply")
    /\ UNCHANGED <<dates, corrections, seq, claimed>>

-----------------------------------------------------------------------------
(* The store *)

(* appendCompletedDate: INSERT ... ON CONFLICT DO NOTHING.                    *)
Recorded(stored, day) == IF stored = None THEN day ELSE stored

InsertDate(r) ==
    LET e == req[r].entry
        stored == Seen(dates, r)[e]
    IN
    /\ At(r, "insert_date") /\ FreeFor(dates, e, r)
    /\ dates' = IF Recorded(stored, req[r].day) = stored THEN dates
                ELSE Put(dates, e, r, Recorded(stored, req[r].day))
    /\ Goto(r, "reply")
    /\ UNCHANGED <<corrections, seq, claimed>>

(* appendDateCorrection: INSERT ... SELECT ... ON CONFLICT DO NOTHING.  The   *)
(* statement that inserts reads the day it supersedes, and a restatement      *)
(* looks for a withdrawal; neither is locked.                                 *)
Inserts(log, e, k, kind) ==
    /\ log[<<e, k>>] = None
    /\ kind = "restated" => \A c \in Of(log, e) : c.kind # "withdrawn"

Superseded_MovedFirst(r) == req[r].day          \* mutant: the day is moved before it is read
Superseded(r) == Seen(dates, r)[req[r].entry]

NextRow(r) ==
    [kind |-> req[r].op, day |-> req[r].day,
     superseded |-> IF req[r].op = "restated" THEN Superseded(r) ELSE None, seq |-> seq + 1]

InsertCorrection(r) ==
    /\ At(r, "insert_correction") /\ FreeFor(corrections, Id(r), r) /\ seq < MaxSeq
    /\ seq' = seq + 1       \* nextval is taken whether or not the row conflicts
    /\ IF Inserts(Seen(corrections, r), req[r].entry, req[r].key, req[r].op)
         THEN /\ corrections' = Put(corrections, Id(r), r, NextRow(r))
              /\ Goto(r, IF req[r].op = "restated" THEN "move_day" ELSE "reply")
         ELSE UNCHANGED corrections /\ Goto(r, "reply")
    /\ UNCHANGED <<dates, claimed>>

MoveDay(r) ==
    /\ At(r, "move_day") /\ FreeFor(dates, req[r].entry, r)
    /\ dates' = Put(dates, req[r].entry, r, req[r].day)
    /\ Goto(r, "reply")
    /\ UNCHANGED <<corrections, seq, claimed>>

-----------------------------------------------------------------------------
(* The end of the transaction *)

CommitRequest(r) ==
    /\ At(r, "reply")
    /\ dates' = Commit(dates, r) /\ corrections' = Commit(corrections, r)
    /\ claimed' = [e \in Entries |-> IF claimed[e] = None THEN dates'[e].row ELSE claimed[e]]
    /\ req' = [req EXCEPT ![r] = Idle]
    /\ UNCHANGED seq

Abort(r) ==
    /\ ~At(r, "idle")
    /\ dates' = Rollback(dates, r) /\ corrections' = Rollback(corrections, r)
    /\ req' = [req EXCEPT ![r] = Idle]
    /\ UNCHANGED <<seq, claimed>>

Init ==
    /\ dates = [e \in Entries |-> Settled(None)]
    /\ corrections = [c \in CorrectionIds |-> Settled(None)]
    /\ seq = 0
    /\ req = [r \in Requests |-> Idle]
    /\ claimed = [e \in Entries |-> None]

Next ==
    \E r \in Requests :
       \/ \E e \in Entries, day \in Days :
             \/ Begin(r, "record", e, None, day)
             \/ \E k \in Keys : Begin(r, "restated", e, k, day)
       \/ \E e \in Entries, k \in Keys : Begin(r, "withdrawn", e, k, None)
       \/ ReadEntries(r) \/ ReadCorrections(r) \/ DecideRecord(r) \/ DecideCorrect(r)
       \/ InsertDate(r) \/ InsertCorrection(r) \/ MoveDay(r)
       \/ CommitRequest(r) \/ Abort(r)

Spec == Init /\ [][Next]_vars

-----------------------------------------------------------------------------
(* Properties *)

Date == Stored(dates)
Log == Stored(corrections)
LogOf(e) == Of(Log, e)

(* Every row and request of this module has its type; no day stored is ahead.  *)
TypeOK ==
    /\ dates \in [Entries -> Versions(1..Today \cup {None}, Requests)]
    /\ corrections \in [CorrectionIds -> Versions(Correction \cup {None}, Requests)]
    /\ seq \in 0..MaxSeq
    /\ req \in [Requests -> RequestState]
    /\ claimed \in [Entries -> Days \cup {None}]

(* "Corrections accumulate and never resurrect": once a withdrawal of a date  *)
(* has committed, no request that was already under way brings the date back  *)
(* into the count, and no correction is ever rewritten or lost.               *)
NothingResurrects ==
    [][\A e \in Entries :
          /\ LogOf(e) \subseteq Of(Log', e)
          /\ ~IsCounted(LogOf(e)) => ~IsCounted(Of(Log', e))]_vars

(* A restatement replaces a day the date did show: the claims can be walked   *)
(* back to the first.                                                         *)
SupersedesAClaim ==
    \A e \in Entries : \A c \in LogOf(e) :
        c.kind = "restated" =>
            c.superseded \in {claimed[e]} \cup {d.day : d \in LogOf(e) \ {c}}

(* "A request that raced a withdrawal loses here": in the log no restatement  *)
(* of a date follows a withdrawal of it.                                      *)
RacedRestatementLoses ==
    \A e \in Entries : \A c, d \in LogOf(e) :
        c.kind = "withdrawn" /\ d.kind = "restated" => d.seq < c.seq
=============================================================================
