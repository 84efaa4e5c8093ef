---------------------------- MODULE EventImport ----------------------------
(***************************************************************************)
(* The import of events by administrators (handlers/admin_parser.go and    *)
(* repository/admin_parser.go): a parse request runs the event parser and  *)
(* stores what it found, one INSERT per event; administrators reject,      *)
(* delete or import the stored rows.  An import reads the row in one       *)
(* statement and creates the event in a later transaction.                 *)
(***************************************************************************)
EXTENDS EventParser

CONSTANTS
  Rows,     \* the ids of admin_event_parser_events
  Imports,  \* import requests that may run at the same time
  NoRow     \* a free slot of Imports

ASSUME ImportAssumption == NoRow \notin Rows

VARIABLES
  saved,      \* the items a parse request has stored so far
  verdict,    \* what parseAndStore returned to it, "open" while it runs and
              \* "broken" when a statement or the deadline failed it
  status,     \* status of each row, "none" before and "gone" after it
  importing,  \* which row an import request has read
  event,      \* the event created from a row: "none", "live" or "gone"
  linked,     \* the rows with an imported_event_id
  created,    \* history: how many events were created from a row
  touched     \* the source has a last_parsed_at

requestVars == <<saved, verdict, importing>>
rowVars == <<status, event, linked, created>>
vars == <<parserVars, requestVars, rowVars, touched>>

Statuses == {"none", "pending", "error", "rejected", "imported", "gone"}

TypeOK ==
  /\ channel \in [Posts -> PostKinds \cup {Absent}]
  /\ published \in 0..LastPost
  /\ run \in [Runs -> RunStates \cup {NoRun}]
  /\ faults \in 0..MaxFaults
  /\ saved \in [Runs -> SUBSET Items]
  /\ verdict \in [Runs -> {"open", "ok", "error", "broken"}]
  /\ status \in [Rows -> Statuses]
  /\ importing \in [Imports -> Rows \cup {NoRow}]
  /\ event \in [Rows -> {"none", "live", "gone"}]
  /\ linked \subseteq Rows
  /\ created \in [Rows -> Nat]
  /\ touched \in BOOLEAN

Init ==
  /\ ParserInit
  /\ saved = [r \in Runs |-> {}]
  /\ verdict = [r \in Runs |-> "open"]
  /\ status = [w \in Rows |-> "none"]
  /\ importing = [i \in Imports |-> NoRow]
  /\ event = [w \in Rows |-> "none"]
  /\ linked = {}
  /\ created = [w \in Rows |-> 0]
  /\ touched = FALSE

(***************************************************************************)
(* ParseParserSource, ParseParserInput and parseAndStore.                  *)
(***************************************************************************)
\* A free row bounds how often.
Parse(r, input) ==
  /\ run[r] = NoRun
  /\ \E w \in Rows : status[w] = "none"
  /\ Set(r, NewRun(input))
  /\ UNCHANGED <<channel, published, faults, requestVars, rowVars, touched>>

Saving(r) ==
  run[r] # NoRun /\ run[r].stage \in {"parsed", "failed"} /\ verdict[r] = "open"

\* CreateAdminParsedEvent.
InsertRow(w, newStatus) ==
  /\ status[w] = "none"
  /\ status' = [status EXCEPT ![w] = newStatus]
  /\ UNCHANGED <<event, linked, created>>

Ends(r, v) == verdict' = [verdict EXCEPT ![r] = v]

\* One event of the loop; the database refuses a name that is not valid UTF-8.
StoreItem(r) ==
  /\ Saving(r) /\ run[r].stage = "parsed"
  /\ \E item \in run[r].items \ saved[r], w \in Rows :
       /\ item.storable
       /\ InsertRow(w, "pending")
       /\ saved' = [saved EXCEPT ![r] = @ \cup {item}]
       /\ Ends(r, IF run[r].items \subseteq saved[r] \cup {item} THEN "ok" ELSE "open")
  /\ UNCHANGED <<parserVars, importing, touched>>

StoreRefused(r) ==
  /\ Saving(r) /\ run[r].stage = "parsed"
  /\ \E item \in run[r].items \ saved[r] : ~ item.storable
  /\ Ends(r, "error")
  /\ UNCHANGED <<parserVars, saved, importing, rowVars, touched>>

\* A parse error, or nothing parsed, leaves a row of its own.
StoreError(r) ==
  /\ Saving(r)
  /\ run[r].stage = "failed" \/ run[r].items = {}
  /\ \E w \in Rows : InsertRow(w, "error")
  /\ Ends(r, "error")
  /\ UNCHANGED <<parserVars, saved, importing, touched>>

\* A statement fails, or the 90 seconds of the request are over: what is
\* stored stays, and the error row is not written.
ParseBroken(r) ==
  /\ run[r] # NoRun /\ verdict[r] = "open"
  /\ Fault
  /\ Ends(r, "broken")
  /\ run' = [run EXCEPT ![r].cut = TRUE]
  /\ UNCHANGED <<channel, published, saved, importing, rowVars, touched>>

\* TouchAdminParserSourceParsed and the answer.  The touch does not ask for
\* the verdict, but after the deadline it fails too.
Respond(r) ==
  /\ run[r] # NoRun /\ verdict[r] # "open"
  /\ \/ touched' = (touched \/ run[r].input.sourced)
     \/ verdict[r] = "broken" /\ UNCHANGED touched
  /\ Set(r, NoRun)
  /\ saved' = [saved EXCEPT ![r] = {}]
  /\ Ends(r, "open")
  /\ UNCHANGED <<channel, published, faults, importing, rowVars>>

(***************************************************************************)
(* The stored rows.                                                        *)
(***************************************************************************)
Exists(w) == status[w] \notin {"none", "gone"}

MayReject(w) == Exists(w) /\ status[w] # "imported"

RejectParsedEvent(w) ==
  /\ MayReject(w)
  /\ status' = [status EXCEPT ![w] = "rejected"]
  /\ UNCHANGED <<parserVars, requestVars, event, linked, created, touched>>

DeleteParsedEvent(w) ==
  /\ Exists(w)
  /\ status' = [status EXCEPT ![w] = "gone"]
  /\ linked' = linked \ {w}
  /\ UNCHANGED <<parserVars, requestVars, event, created, touched>>

\* ImportParsedEvent reads the row; any status but imported will do.
ImportRead(i, w) ==
  /\ importing[i] = NoRow
  /\ Exists(w) /\ status[w] # "imported"
  /\ importing' = [importing EXCEPT ![i] = w]
  /\ UNCHANGED <<parserVars, saved, verdict, rowVars, touched>>

\* For the mutants: the status is not read again under the row lock.
MayImportUnlocked(w) == Exists(w)

\* What ImportAdminParsedEvent finds under the row lock.
MayImport(w) == Exists(w) /\ status[w] # "imported"

ImportDone(i) == importing' = [importing EXCEPT ![i] = NoRow]

\* The transaction of ImportAdminParsedEvent.
ImportParsedEvent(i) ==
  /\ importing[i] # NoRow
  /\ LET w == importing[i] IN
       /\ MayImport(w)
       /\ status' = [status EXCEPT ![w] = "imported"]
       /\ event' = [event EXCEPT ![w] = "live"]
       /\ linked' = linked \cup {w}
       /\ created' = [created EXCEPT ![w] = @ + 1]
  /\ ImportDone(i)
  /\ UNCHANGED <<parserVars, saved, verdict, touched>>

\* The row is gone or imported meanwhile, or a statement fails: rolled back.
ImportRefused(i) ==
  /\ importing[i] # NoRow
  /\ \/ ~ MayImport(importing[i]) /\ UNCHANGED faults
     \/ Fault
  /\ ImportDone(i)
  /\ UNCHANGED <<channel, published, run, saved, verdict, rowVars, touched>>

\* An administrator deletes the event; imported_event_id becomes NULL.
DeleteEvent(w) ==
  /\ event[w] = "live"
  /\ event' = [event EXCEPT ![w] = "gone"]
  /\ linked' = linked \ {w}
  /\ UNCHANGED <<parserVars, requestVars, status, created, touched>>

\* The API stops: the requests under way are gone, the rows stay.
Crash ==
  /\ Fault
  /\ run' = [r \in Runs |-> NoRun]
  /\ saved' = [r \in Runs |-> {}]
  /\ verdict' = [r \in Runs |-> "open"]
  /\ importing' = [i \in Imports |-> NoRow]
  /\ UNCHANGED <<channel, published, rowVars, touched>>

Parsing ==
  /\ ParserNext
  /\ UNCHANGED <<requestVars, rowVars, touched>>

Next ==
  \/ Parsing
  \/ \E r \in Runs :
       \/ \E input \in Inputs : Parse(r, input)
       \/ StoreItem(r) \/ StoreRefused(r) \/ StoreError(r) \/ ParseBroken(r)
       \/ Respond(r)
  \/ \E w \in Rows :
       RejectParsedEvent(w) \/ DeleteParsedEvent(w) \/ DeleteEvent(w)
  \/ \E i \in Imports :
       \/ \E w \in Rows : ImportRead(i, w)
       \/ ImportParsedEvent(i) \/ ImportRefused(i)
  \/ Crash

Spec == Init /\ [][Next]_vars

(***************************************************************************)
(* Properties.                                                             *)
(***************************************************************************)
ScansChannel(r) ==
  run[r] # NoRun /\ Source(run[r].input) = "telegram" /\ ~ Single(r)

StoredPosts(r) == {item.post : item \in saved[r]}

\* One run makes at most one event of a post, however the pages overlap and
\* whatever is published meanwhile: seenPosts of ParseMany.
EachPostOnce ==
  \A r \in Runs : run[r] # NoRun =>
    \A x, y \in run[r].items : x.post = y.post => x = y

\* A run that answers 200, and whose scan no failing fetch, wrong page or page
\* limit cut short, has stored every post of the last 24 hours that had text
\* and was there all the time, although others came and went between the pages.
WindowStored ==
  \A r \in Runs :
    ScansChannel(r) /\ verdict[r] = "ok" /\ ~ run[r].cut
      => run[r].steady \subseteq StoredPosts(r)

\* No row becomes two events, and a row is imported exactly when an event was
\* created from it, whoever imports, rejects and deletes at the same time.
ImportedOnce ==
  \A w \in Rows :
    /\ created[w] <= 1
    /\ Exists(w) => (status[w] = "imported" <=> created[w] = 1)
    /\ w \in linked => status[w] = "imported" /\ event[w] = "live"

\* README.md of the repository: "Telegram parser now extracts all channel messages
\* for the last 24 hours".  A scan that ends without any fault has extracted every
\* post of the window that had text and was there all the time.
AllPostsExtracted ==
  \A r \in Runs :
    ScansChannel(r) /\ run[r].stage = "parsed" /\ faults = 0
      => run[r].steady \subseteq {item.post : item \in run[r].items}
=============================================================================
