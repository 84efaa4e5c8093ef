-------------------------- MODULE EventImportProofs --------------------------
(***************************************************************************)
(* The theorems about the event import, for any number of rows, parse      *)
(* requests and imports, any length of the channel and of its pages, and   *)
(* whatever is published and withdrawn meanwhile.                          *)
(***************************************************************************)
EXTENDS EventImport, Counting

RowTypes ==
  /\ status \in [Rows -> Statuses]
  /\ event \in [Rows -> {"none", "live", "gone"}]
  /\ created \in [Rows -> Nat]
  /\ importing \in [Imports -> Rows \cup {NoRow}]

\* Events are created from rows that are imported, and such a row is imported
\* until it is deleted.
RowInv(w) ==
  /\ created[w] <= 1
  /\ status[w] \in {"none", "pending", "error", "rejected"} => created[w] = 0
  /\ status[w] = "imported" => created[w] = 1
  /\ w \in linked => status[w] = "imported" /\ event[w] = "live"

ImportInv == RowTypes /\ \A w \in Rows : RowInv(w)

LEMMA ImportInitial == Init => ImportInv
<1>1. SUFFICES ASSUME Init PROVE ImportInv
  OBVIOUS
<1>2. RowTypes
  BY <1>1 DEF Init, RowTypes, Statuses
<1>3. ASSUME NEW w \in Rows PROVE RowInv(w)
  BY <1>1, <1>3 DEF Init, RowInv
<1>. QED
  BY <1>2, <1>3 DEF ImportInv

\* Steps that leave the rows alone.
LEMMA RowsStay ==
  ASSUME ImportInv, UNCHANGED rowVars, importing' \in [Imports -> Rows \cup {NoRow}]
  PROVE  ImportInv'
BY DEF ImportInv, RowTypes, RowInv, rowVars

LEMMA InsertKeeps ==
  ASSUME ImportInv, NEW w \in Rows, NEW s \in {"pending", "error"},
         InsertRow(w, s), UNCHANGED importing
  PROVE  ImportInv'
<1>1. RowTypes'
  BY DEF ImportInv, RowTypes, InsertRow, Statuses
<1>2. ASSUME NEW v \in Rows PROVE RowInv(v)'
  BY <1>2 DEF ImportInv, RowTypes, InsertRow, RowInv
<1>. QED
  BY <1>1, <1>2 DEF ImportInv

LEMMA RejectKeeps ==
  ASSUME ImportInv, NEW w \in Rows, RejectParsedEvent(w)
  PROVE  ImportInv'
<1>1. RowTypes'
  BY DEF ImportInv, RowTypes, RejectParsedEvent, requestVars, Statuses
<1>2. status[w] \in {"pending", "error", "rejected"}
  BY DEF ImportInv, RowTypes, Statuses, RejectParsedEvent, MayReject, Exists
<1>3. ASSUME NEW v \in Rows PROVE RowInv(v)'
  BY <1>2, <1>3 DEF ImportInv, RowTypes, RejectParsedEvent, RowInv
<1>. QED
  BY <1>1, <1>3 DEF ImportInv

LEMMA DeleteKeeps ==
  ASSUME ImportInv, NEW w \in Rows, DeleteParsedEvent(w)
  PROVE  ImportInv'
<1>1. RowTypes'
  BY DEF ImportInv, RowTypes, DeleteParsedEvent, requestVars, Statuses
<1>2. ASSUME NEW v \in Rows PROVE RowInv(v)'
  BY <1>2 DEF ImportInv, RowTypes, DeleteParsedEvent, RowInv
<1>. QED
  BY <1>1, <1>2 DEF ImportInv

LEMMA DeleteEventKeeps ==
  ASSUME ImportInv, NEW w \in Rows, DeleteEvent(w)
  PROVE  ImportInv'
<1>1. RowTypes'
  BY DEF ImportInv, RowTypes, DeleteEvent, requestVars
<1>2. ASSUME NEW v \in Rows PROVE RowInv(v)'
  BY <1>2 DEF ImportInv, RowTypes, DeleteEvent, RowInv
<1>. QED
  BY <1>1, <1>2 DEF ImportInv

\* The row is imported as it is found under its lock, not as it was read.
LEMMA ImportKeeps ==
  ASSUME ImportInv, NEW i \in Imports, ImportParsedEvent(i)
  PROVE  ImportInv'
<1>. DEFINE w == importing[i]
<1>1. /\ w \in Rows
      /\ status' = [status EXCEPT ![w] = "imported"]
      /\ event' = [event EXCEPT ![w] = "live"]
      /\ linked' = linked \cup {w}
      /\ created' = [created EXCEPT ![w] = @ + 1]
      /\ importing' = [importing EXCEPT ![i] = NoRow]
  BY DEF ImportInv, RowTypes, ImportParsedEvent, ImportDone
<1>2. RowTypes'
  BY <1>1 DEF ImportInv, RowTypes, Statuses
<1>3. status[w] \in {"pending", "error", "rejected"}
  BY <1>1 DEF ImportInv, RowTypes, Statuses, ImportParsedEvent, MayImport, Exists
<1>4. ASSUME NEW v \in Rows PROVE RowInv(v)'
  <2>1. RowInv(v) /\ created[v] \in Nat
    BY DEF ImportInv, RowTypes
  <2>2. CASE v = w
    <3>1. created[v] = 0
      BY <1>3, <2>1, <2>2 DEF RowInv
    <3>2. created'[v] = 1 /\ status'[v] = "imported" /\ event'[v] = "live"
      BY <1>1, <2>2, <3>1 DEF ImportInv, RowTypes
    <3>. QED
      BY <3>2 DEF RowInv
  <2>3. CASE v # w
    <3>1. /\ created'[v] = created[v] /\ status'[v] = status[v] /\ event'[v] = event[v]
          /\ v \in linked' => v \in linked
      BY <1>1, <2>3 DEF ImportInv, RowTypes
    <3>. QED
      BY <2>1, <3>1 DEF RowInv
  <2>. QED
    BY <2>2, <2>3
<1>. QED
  BY <1>2, <1>4 DEF ImportInv

LEMMA ImportStep == ImportInv /\ [Next]_vars => ImportInv'
<1>1. SUFFICES ASSUME ImportInv, [Next]_vars PROVE ImportInv'
  OBVIOUS
<1>2. importing \in [Imports -> Rows \cup {NoRow}]
  BY <1>1 DEF ImportInv, RowTypes
<1>3. ASSUME UNCHANGED <<rowVars, importing>> PROVE ImportInv'
  BY <1>1, <1>2, <1>3, RowsStay
<1>4. CASE Parsing
  BY <1>3, <1>4 DEF Parsing, requestVars
<1>5. ASSUME NEW r \in Runs, NEW input \in Inputs, Parse(r, input) PROVE ImportInv'
  BY <1>3, <1>5 DEF Parse, requestVars
<1>6. ASSUME NEW r \in Runs, StoreItem(r) PROVE ImportInv'
  <2>1. PICK w \in Rows : InsertRow(w, "pending")
    BY <1>6 DEF StoreItem
  <2>2. UNCHANGED importing
    BY <1>6 DEF StoreItem
  <2>. QED
    BY <1>1, <2>1, <2>2, InsertKeeps
<1>7. ASSUME NEW r \in Runs, StoreError(r) PROVE ImportInv'
  <2>1. PICK w \in Rows : InsertRow(w, "error")
    BY <1>7 DEF StoreError
  <2>2. UNCHANGED importing
    BY <1>7 DEF StoreError
  <2>. QED
    BY <1>1, <2>1, <2>2, InsertKeeps
<1>8. ASSUME NEW r \in Runs, StoreRefused(r) \/ ParseBroken(r) \/ Respond(r)
      PROVE  ImportInv'
  BY <1>3, <1>8 DEF StoreRefused, ParseBroken, Respond
<1>9. ASSUME NEW w \in Rows, RejectParsedEvent(w) \/ DeleteParsedEvent(w) \/ DeleteEvent(w)
      PROVE  ImportInv'
  BY <1>1, <1>9, RejectKeeps, DeleteKeeps, DeleteEventKeeps
<1>10. ASSUME NEW i \in Imports, NEW w \in Rows, ImportRead(i, w) PROVE ImportInv'
  <2>1. importing' \in [Imports -> Rows \cup {NoRow}] /\ UNCHANGED rowVars
    BY <1>2, <1>10 DEF ImportRead
  <2>. QED
    BY <1>1, <2>1, RowsStay
<1>11. ASSUME NEW i \in Imports, ImportParsedEvent(i) PROVE ImportInv'
  BY <1>1, <1>11, ImportKeeps
<1>12. ASSUME NEW i \in Imports, ImportRefused(i) PROVE ImportInv'
  <2>1. importing' \in [Imports -> Rows \cup {NoRow}] /\ UNCHANGED rowVars
    BY <1>2, <1>12 DEF ImportRefused, ImportDone
  <2>. QED
    BY <1>1, <2>1, RowsStay
<1>13. CASE Crash
  <2>1. importing' \in [Imports -> Rows \cup {NoRow}] /\ UNCHANGED rowVars
    BY <1>13 DEF Crash
  <2>. QED
    BY <1>1, <2>1, RowsStay
<1>14. CASE UNCHANGED vars
  BY <1>3, <1>14 DEF vars, requestVars
<1>. QED
  BY <1>1, <1>4, <1>5, <1>6, <1>7, <1>8, <1>9, <1>10, <1>11, <1>12, <1>13, <1>14 DEF Next

\* ImportAdminParsedEvent creates at most one event from a row, whoever reads,
\* rejects, deletes and imports it at the same time, and the status says so.
THEOREM ImportedOnceTheorem == Spec => []ImportedOnce
<1>1. Init => ImportInv
  BY ImportInitial
<1>2. ImportInv /\ [Next]_vars => ImportInv'
  BY ImportStep
<1>3. ImportInv => ImportedOnce
  BY DEF ImportInv, RowTypes, RowInv, ImportedOnce, Exists, Statuses
<1>. QED
  BY <1>1, <1>2, <1>3, PTL DEF Spec

-----------------------------------------------------------------------------
(***************************************************************************)
(* What a parse request knows of the channel.                              *)
(***************************************************************************)
\* Ids are given in order, and nothing that is older than 24 hours has a larger
\* one than a post of the window.
ChannelInv ==
  /\ channel \in [Posts -> PostKinds \cup {Absent}]
  /\ published \in 0..LastPost
  /\ \A p \in Posts : published < p => channel[p] = Absent
  /\ \A p, q \in Present :
       p < q => ~ (channel[p].age = "fresh" /\ channel[q].age = "stale")

OneEach(items) == \A x, y \in items : x.post = y.post => x = y

Covers(items, posts) == \A p \in posts : \E x \in items : x.post = p

\* What is collected is of posts that were seen, one item of each.
CollectedInv(s) ==
  /\ s \in RunStates
  /\ s.stage = "fetch" =>
       s.page < MaxPages /\ \A x \in s.items : x.post \in s.seen \cup {WholePage}
  /\ OneEach(s.items) /\ OneEach(s.stale)

SteadyInv(s) ==
  \A p \in s.steady :
    p \in Present /\ channel[p].age = "fresh" /\ channel[p].text # "none"

Unbroken(s) == Source(s.input) = "telegram" /\ s.input.site # "post" /\ ~ s.cut

\* The scan is through with what lies behind it, and at its end with all.
ScanInv(s) ==
  Unbroken(s) =>
    /\ s.stage \in {"fetch", "parsed", "failed"}
    /\ s.stage = "fetch" =>
         /\ \A p \in s.seen : s.before <= p
         /\ Covers(s.items, {p \in s.steady : s.before <= p})
    /\ s.stage = "parsed" => Covers(s.items, s.steady)

RunInv(s) == CollectedInv(s) /\ SteadyInv(s) /\ ScanInv(s)

ParserInv ==
  /\ ChannelInv
  /\ run \in [Runs -> RunStates \cup {NoRun}]
  /\ \A r \in Runs : run[r] # NoRun => RunInv(run[r])

StoredInv ==
  /\ saved \in [Runs -> SUBSET Items]
  /\ verdict \in [Runs -> {"open", "ok", "error", "broken"}]
  /\ \A r \in Runs : verdict[r] = "ok" =>
       run[r] # NoRun /\ run[r].stage = "parsed" /\ run[r].items \subseteq saved[r]

LEMMA ParserInitial == ParserInit => ParserInv
<1>1. SUFFICES ASSUME ParserInit PROVE ParserInv
  OBVIOUS
<1>2. /\ channel \in [Posts -> PostKinds \cup {Absent}]
      /\ published \in 0..LastPost
      /\ \A p \in Posts : channel[p] = Absent <=> published < p
      /\ \A p, q \in 1..published :
           p < q => ~ (channel[p].age = "fresh" /\ channel[q].age = "stale")
  BY <1>1, ParserAssumption DEF ParserInit, Posts
<1>3. Present = 1..published
  BY <1>2, ParserAssumption DEF Present, Posts
<1>4. ChannelInv
  BY <1>2, <1>3 DEF ChannelInv
<1>5. run = [r \in Runs |-> NoRun]
  BY <1>1 DEF ParserInit
<1>. QED
  BY <1>4, <1>5 DEF ParserInv

\* A step of one request.
LEMMA OneRunKeeps ==
  ASSUME ParserInv, UNCHANGED <<channel, published>>,
         NEW r \in Runs, NEW s, RunInv(s), run' = [run EXCEPT ![r] = s]
  PROVE  ParserInv'
<1>1. ChannelInv' /\ RunInv(s)'
  BY DEF ParserInv, ChannelInv, Present, RunInv, CollectedInv, SteadyInv, ScanInv,
         Unbroken
<1>2. run' \in [Runs -> RunStates \cup {NoRun}]
  BY DEF ParserInv, RunInv, CollectedInv
<1>3. ASSUME NEW q \in Runs, run'[q] # NoRun PROVE RunInv(run[q])'
  <2>1. CASE q = r
    BY <1>1, <1>3, <2>1 DEF ParserInv
  <2>2. CASE q # r
    <3>1. run'[q] = run[q]
      BY <2>2 DEF ParserInv
    <3>2. RunInv(run[q])
      BY <1>3, <3>1 DEF ParserInv
    <3>. QED
      BY <3>1, <3>2 DEF RunInv, CollectedInv, SteadyInv, Present, ScanInv, Unbroken
  <2>. QED
    BY <2>1, <2>2
<1>. QED
  BY <1>1, <1>2, <1>3 DEF ParserInv

LEMMA NewRunInv ==
  ASSUME ParserInv, NEW input \in Inputs
  PROVE  RunInv(NewRun(input))
<1>. DEFINE s == NewRun(input)
<1>1. LastPost + 1 \in 1..(LastPost + 1) /\ 0 \in 0..MaxPages /\ 0 \in 0..Retries
      /\ 0 < MaxPages
  BY ParserAssumption
<1>2. s \in RunStates /\ s.page = 0 /\ s.items = {} /\ s.seen = {} /\ s.stale = {}
      /\ s.before = LastPost + 1 /\ s.stage \in {"fetch", "failed"}
      /\ s.steady = {p \in Posts : channel[p] # Absent /\ channel[p].age = "fresh"
                               /\ channel[p].text # "none"}
  BY <1>1 DEF NewRun, RunStates
<1>. HIDE DEF s
<1>3. CollectedInv(s)
  BY <1>1, <1>2 DEF CollectedInv, OneEach
<1>4. SteadyInv(s)
  BY <1>2 DEF SteadyInv, Present
<1>5. {p \in s.steady : s.before <= p} = {}
  BY <1>2, ParserAssumption DEF Posts
<1>6. ScanInv(s)
  BY <1>2, <1>5 DEF ScanInv, Covers
<1>7. RunInv(s)
  BY <1>3, <1>4, <1>6 DEF RunInv
<1>. QED
  BY <1>7 DEF s

\* What a failing fetch or the deadline leaves.
LEMMA FailureKeeps ==
  ASSUME NEW s, RunInv(s), NEW stage \in {"fetch", "direct", "parsed", "failed"},
         stage \in {s.stage, "failed", "parsed"}
  PROVE  RunInv([s EXCEPT !.stage = stage, !.cut = TRUE])
<1>. DEFINE t == [s EXCEPT !.stage = stage, !.cut = TRUE]
<1>1. t \in RunStates /\ t.stage = stage /\ t.cut /\ t.page = s.page /\ t.items = s.items
      /\ t.seen = s.seen /\ t.stale = s.stale /\ t.steady = s.steady
  BY DEF RunInv, CollectedInv, RunStates
<1>. HIDE DEF t
<1>2. CollectedInv(t)
  BY <1>1 DEF RunInv, CollectedInv
<1>3. SteadyInv(t) /\ ScanInv(t)
  BY <1>1 DEF RunInv, SteadyInv, ScanInv, Unbroken
<1>4. RunInv(t)
  BY <1>2, <1>3 DEF RunInv
<1>. QED
  BY <1>4 DEF t

LEMMA FetchFailsKeeps ==
  ASSUME ParserInv, NEW r \in Runs, FetchFails(r)
  PROVE  ParserInv'
<1>. DEFINE stage == IF run[r].items = {} THEN "failed" ELSE "parsed"
            s == [run[r] EXCEPT !.stage = stage, !.cut = TRUE]
<1>1. RunInv(run[r]) /\ UNCHANGED <<channel, published>>
  BY DEF ParserInv, FetchFails, ChannelUnchanged
<1>2. RunInv(s)
  BY <1>1, FailureKeeps
<1>3. run' = [run EXCEPT ![r] = s]
  BY DEF FetchFails
<1>. HIDE DEF s
<1>. QED
  BY <1>1, <1>2, <1>3, OneRunKeeps

LEMMA FetchRetriedKeeps ==
  ASSUME ParserInv, NEW r \in Runs, FetchRetried(r)
  PROVE  ParserInv'
<1>. DEFINE s == [run[r] EXCEPT !.attempt = @ + 1]
            t == run[r]
<1>1. RunInv(t) /\ UNCHANGED <<channel, published>> /\ t.attempt < Retries
  BY DEF ParserInv, FetchRetried, ChannelUnchanged
<1>2. t \in RunStates
  BY <1>1 DEF RunInv, CollectedInv
<1>3. t.attempt + 1 \in 0..Retries
  BY <1>1, <1>2, ParserAssumption DEF RunStates
<1>4. run' = [run EXCEPT ![r] = s]
  BY DEF FetchRetried
<1>. HIDE DEF t
<1>5. s = [t EXCEPT !.attempt = @ + 1]
  BY DEF t
<1>. HIDE DEF s
<1>6. s \in RunStates /\ s.stage = t.stage /\ s.cut = t.cut /\ s.page = t.page
      /\ s.items = t.items /\ s.seen = t.seen /\ s.stale = t.stale
      /\ s.steady = t.steady /\ s.before = t.before /\ s.input = t.input
  BY <1>2, <1>3, <1>5 DEF RunStates
<1>7. RunInv(s)
  BY <1>1, <1>6 DEF RunInv, CollectedInv, SteadyInv, ScanInv, Unbroken
<1>. QED
  BY <1>1, <1>4, <1>7, OneRunKeeps

(***************************************************************************)
(* The pages of the channel.                                               *)
(***************************************************************************)
LEMMA PostsBetween ==
  ASSUME NEW p, NEW b
  PROVE  IsFiniteSet({q \in Present : p < q /\ q < b})
<1>1. IsFiniteSet(1..LastPost)
  BY FS_Interval, ParserAssumption
<1>. QED
  BY <1>1, Fewer DEF Present, Posts

\* A page has every post between its lowest one and where it begins.
LEMMA ServedUp ==
  ASSUME NEW b \in Nat, NEW p \in Present, NEW q \in Served(b), q <= p, p < b
  PROVE  p \in Served(b)
<1>. DEFINE A == {x \in Present : q < x /\ x < b}
            B == {x \in Present : p < x /\ x < b}
<1>1. p \in Nat /\ q \in Nat /\ Present \subseteq Nat /\ PageSize \in Nat
  BY ParserAssumption DEF Present, Posts, Served
<1>2. B \subseteq A
  <2>1. ASSUME NEW x \in Present, p < x PROVE q < x
    <3>1. x \in Nat
      BY <1>1
    <3>. QED
      BY <1>1, <2>1, <3>1
  <2>. QED
    BY <2>1
<1>3. Cardinality(A) < PageSize
  BY DEF Served
<1>4. IsFiniteSet(A)
  BY PostsBetween
<1>. HIDE DEF A
<1>5. Cardinality(B) <= Cardinality(A) /\ Cardinality(A) \in Nat /\ Cardinality(B) \in Nat
  BY <1>2, <1>4, Fewer
<1>6. Cardinality(B) < PageSize
  BY <1>1, <1>3, <1>5
<1>. QED
  BY <1>6 DEF Served

\* A page is empty only where nothing lies further back.
LEMMA ServedSome ==
  ASSUME NEW b \in Nat, NEW p \in Present, p < b
  PROVE  Served(b) # {}
<1>. DEFINE T == {x \in Present : x < b}
<1>1. T \subseteq 0..LastPost /\ T # {} /\ LastPost \in Nat
  BY ParserAssumption DEF Present, Posts
<1>2. PICK x \in T : \A y \in T : y <= x
  BY <1>1, Greatest
<1>3. {y \in Present : x < y /\ y < b} = {}
  <2>1. ASSUME NEW y \in Present, x < y, y < b PROVE FALSE
    <3>1. y \in T
      BY <2>1
    <3>. HIDE DEF T
    <3>2. y <= x /\ x \in Nat /\ y \in Nat
      BY <1>1, <1>2, <3>1
    <3>. QED
      BY <2>1, <3>2
  <2>. QED
    BY <2>1
<1>4. Cardinality({y \in Present : x < y /\ y < b}) < PageSize
  BY <1>3, FS_EmptySet, ParserAssumption
<1>5. x \in Served(b)
  BY <1>2, <1>4 DEF Served
<1>. QED
  BY <1>5

LEMMA LowestIs ==
  ASSUME NEW T, T \subseteq Posts, T # {}
  PROVE  Lowest(T) \in T /\ \A q \in T : Lowest(T) <= q
<1>1. T \subseteq Nat
  BY ParserAssumption DEF Posts
<1>2. \E x \in T : \A y \in T : x <= y
  BY <1>1, Least
<1>. QED
  BY <1>2 DEF Lowest

(***************************************************************************)
(* The items a page gives, one of each post.                               *)
(***************************************************************************)
LEMMA ItemIs ==
  ASSUME ChannelInv, NEW p \in Present, NEW otherwise \in {"post", "none"},
         NEW page \in 0..MaxPages
  PROVE  Item(p, otherwise, page) \in Items /\ Item(p, otherwise, page).post = p
BY DEF Item, Items, Present

LEMMA CandidatesAre ==
  ASSUME ChannelInv, NEW posts \in SUBSET Present, NEW page \in 0..MaxPages
  PROVE  /\ Candidates(posts, page) \subseteq Items
         /\ OneEach(Candidates(posts, page))
         /\ \A x \in Candidates(posts, page) : x.post \in posts
         /\ Covers(Candidates(posts, page), WithText(posts))
<1>1. \A p \in posts : /\ Item(p, "post", page) \in Items
                       /\ Item(p, "post", page).post = p
  BY ItemIs
<1>2. WithText(posts) \subseteq posts
  BY DEF WithText
<1>. QED
  BY <1>1, <1>2 DEF Candidates, OneEach, Covers

LEMMA LayoutIs ==
  ASSUME ChannelInv, NEW posts \in SUBSET Present
  PROVE  /\ LayoutItems(posts) \subseteq Items
         /\ OneEach(LayoutItems(posts))
         /\ \A x \in LayoutItems(posts) : x.post \in posts \cup {WholePage}
<1>1. 0 \in 0..MaxPages
  BY ParserAssumption
<1>2. \A p \in posts : /\ Item(p, "none", 0) \in Items
                       /\ Item(p, "none", 0).post = p
  BY <1>1, ItemIs
<1>3. PageItem("none") \in Items /\ PageItem("none").post = WholePage
  BY <1>1 DEF PageItem, Items
<1>4. WithText(posts) \subseteq posts
  BY DEF WithText
<1>. QED
  BY <1>2, <1>3, <1>4 DEF LayoutItems, OneEach

\* ParseMany takes a post only once.
LEMMA CollectedIs ==
  ASSUME ParserInv, NEW r \in Runs, Scanning(r), NEW served \in SUBSET Present
  PROVE  /\ Collected(r, served) \subseteq Items
         /\ OneEach(Collected(r, served))
         /\ \A x \in Collected(r, served) :
              x.post \in run[r].seen \cup served \cup {WholePage}
         /\ Covers(Collected(r, served), WithText(OfAge(Unseen(r, served), "fresh")))
         /\ run[r].items # {} => run[r].items \subseteq Collected(r, served)
<1>. DEFINE t == run[r]
            fresh == OfAge(Unseen(r, served), "fresh")
            new == Candidates(fresh, t.page)
            found == t.items \cup new
<1>1. ChannelInv /\ t \in RunStates /\ OneEach(t.items)
      /\ \A x \in t.items : x.post \in t.seen \cup {WholePage}
  BY DEF ParserInv, Scanning, InStage, RunInv, CollectedInv
<1>2. t.page \in 0..MaxPages /\ t.items \subseteq Items /\ t.seen \subseteq Posts
  BY <1>1 DEF RunStates
<1>3. fresh \subseteq served /\ fresh \cap t.seen = {} /\ fresh \subseteq Present
      /\ Present \subseteq Posts
  BY DEF OfAge, Unseen, Present
<1>4. /\ new \subseteq Items /\ OneEach(new) /\ \A x \in new : x.post \in fresh
      /\ Covers(new, WithText(fresh))
  BY <1>1, <1>2, <1>3, CandidatesAre
<1>5. /\ LayoutItems(served) \subseteq Items /\ OneEach(LayoutItems(served))
      /\ \A x \in LayoutItems(served) : x.post \in served \cup {WholePage}
  BY <1>1, LayoutIs
<1>6. Collected(r, served) =
        IF found = {} /\ t.page = 0 THEN LayoutItems(served) ELSE found
  BY DEF Collected
<1>. HIDE DEF t, fresh, new
<1>7. OneEach(found)
  <2>1. \A x \in t.items, y \in new : x.post # y.post
    BY <1>1, <1>3, <1>4, ParserAssumption
  <2>. QED
    BY <1>1, <1>4, <2>1 DEF OneEach
<1>8. CASE found = {} /\ t.page = 0
  <2>1. WithText(fresh) = {}
    BY <1>4, <1>8 DEF Covers
  <2>. QED
    BY <1>5, <1>6, <1>8, <2>1 DEF Covers, t, fresh
<1>9. CASE ~ (found = {} /\ t.page = 0)
  <2>1. Collected(r, served) = found
    BY <1>6, <1>9
  <2>2. found \subseteq Items /\ Covers(found, WithText(fresh))
        /\ \A x \in found : x.post \in t.seen \cup served \cup {WholePage}
    BY <1>1, <1>2, <1>3, <1>4 DEF Covers
  <2>. QED
    BY <1>7, <2>1, <2>2 DEF t, fresh
<1>. QED
  BY <1>8, <1>9

(***************************************************************************)
(* ParseMany reads a page.                                                 *)
(***************************************************************************)
LEMMA StaleIs ==
  ASSUME ParserInv, NEW r \in Runs, Scanning(r), NEW served \in SUBSET Present
  PROVE  KeptStale(r, served) \subseteq Items /\ OneEach(KeptStale(r, served))
<1>1. /\ ChannelInv /\ run[r].stale \subseteq Items /\ OneEach(run[r].stale)
  BY DEF ParserInv, Scanning, InStage, RunInv, CollectedInv, RunStates
<1>2. OfAge(Unseen(r, served), "stale") \in SUBSET Present
  BY DEF OfAge, Unseen
<1>3. 0 \in 0..MaxPages
  BY ParserAssumption
<1>. QED
  BY <1>1, <1>2, <1>3, CandidatesAre DEF KeptStale

\* The state of a request after a page, part by part.
Turned(r, served, wrong, s) ==
  LET t == run[r]
      ended == LastPage(r, served)
      more == ~ ended /\ t.page + 1 < MaxPages
  IN  /\ s.stage = (IF more THEN "fetch" ELSE "parsed")
      /\ s.items = (IF more THEN Collected(r, served)
                    ELSE Returned(Collected(r, served), KeptStale(r, served)))
      /\ s.stale = KeptStale(r, served)
      /\ s.seen = t.seen \cup served
      /\ s.before = (IF more THEN Lowest(Unseen(r, served)) ELSE t.before)
      /\ s.page = t.page + 1
      /\ s.cut = (t.cut \/ wrong \/ ~ (more \/ ended))
      /\ s.steady = t.steady /\ s.input = t.input

LEMMA TurnsTo ==
  ASSUME ParserInv, NEW r \in Runs, Scanning(r), NEW served \in SUBSET Present,
         NEW wrong \in BOOLEAN, TurnPage(r, served, wrong)
  PROVE  \E s \in RunStates :
           Turned(r, served, wrong, s) /\ run' = [run EXCEPT ![r] = s]
<1>. DEFINE t == run[r]
            ended == LastPage(r, served)
            more == ~ ended /\ t.page + 1 < MaxPages
            items == Collected(r, served)
            stale == KeptStale(r, served)
            stage == IF more THEN "fetch" ELSE "parsed"
            after == IF more THEN items ELSE Returned(items, stale)
            before == IF more THEN Lowest(Unseen(r, served)) ELSE t.before
            cut == t.cut \/ wrong \/ ~ (more \/ ended)
            s == [t EXCEPT !.stage = stage, !.items = after, !.stale = stale,
                           !.seen = @ \cup served, !.before = before,
                           !.page = @ + 1, !.attempt = 0, !.cut = cut]
<1>1. run' = [run EXCEPT ![r] = s]
  BY DEF TurnPage, Set
<1>2. /\ t \in RunStates /\ t.page < MaxPages /\ t.page \in 0..MaxPages
      /\ t.before \in 1..(LastPost + 1) /\ t.seen \subseteq Posts
  BY DEF ParserInv, Scanning, InStage, RunInv, CollectedInv, RunStates
<1>3. served \subseteq Posts /\ Unseen(r, served) \subseteq Posts
  BY DEF Present, Unseen
<1>4. items \subseteq Items /\ stale \subseteq Items /\ after \subseteq Items
  BY CollectedIs, StaleIs DEF Returned
<1>5. before \in 1..(LastPost + 1)
  <2>1. CASE more
    <3>1. Unseen(r, served) # {}
      BY <2>1 DEF LastPage
    <3>2. Lowest(Unseen(r, served)) \in Posts
      BY <1>3, <3>1, LowestIs
    <3>. QED
      BY <2>1, <3>2, ParserAssumption DEF Posts
  <2>2. CASE ~ more
    BY <1>2, <2>2
  <2>. QED
    BY <2>1, <2>2
<1>6. t.page + 1 \in 0..MaxPages /\ 0 \in 0..Retries
  BY <1>2, ParserAssumption
<1>7. cut \in BOOLEAN /\ stage \in {"fetch", "parsed"}
  BY <1>2 DEF RunStates
<1>8. s \in RunStates /\ Turned(r, served, wrong, s)
  <2>. HIDE DEF items, stale, stage, after, before, cut, more, ended
  <2>1. /\ s \in RunStates
        /\ s.stage = stage /\ s.items = after /\ s.stale = stale
        /\ s.seen = t.seen \cup served /\ s.before = before /\ s.page = t.page + 1
        /\ s.cut = cut /\ s.steady = t.steady /\ s.input = t.input
    BY <1>2, <1>3, <1>4, <1>5, <1>6, <1>7 DEF RunStates
  <2>. HIDE DEF s
  <2>. QED
    BY <2>1 DEF Turned, items, stale, stage, after, before, cut, more, ended
<1>. HIDE DEF s
<1>. QED
  BY <1>1, <1>8

LEMMA TurnedCollected ==
  ASSUME ParserInv, NEW r \in Runs, Scanning(r), NEW served \in SUBSET Present,
         NEW wrong \in BOOLEAN, NEW s \in RunStates, Turned(r, served, wrong, s)
  PROVE  CollectedInv(s) /\ SteadyInv(s)
<1>. DEFINE items == Collected(r, served)
<1>1. /\ run[r].page \in 0..MaxPages /\ SteadyInv(run[r])
  BY DEF ParserInv, Scanning, InStage, RunInv, CollectedInv, RunStates
<1>2. /\ OneEach(items) /\ OneEach(KeptStale(r, served))
      /\ \A x \in items : x.post \in run[r].seen \cup served \cup {WholePage}
  BY CollectedIs, StaleIs
<1>3. OneEach(s.items) /\ OneEach(s.stale)
  BY <1>2 DEF Turned, Returned
<1>4. s.stage = "fetch" =>
        /\ s.page < MaxPages
        /\ \A x \in s.items : x.post \in s.seen \cup {WholePage}
  BY <1>1, <1>2 DEF Turned
<1>5. SteadyInv(s)
  BY <1>1 DEF Turned, SteadyInv
<1>. QED
  BY <1>3, <1>4, <1>5 DEF CollectedInv

LEMMA WrongPageKeeps ==
  ASSUME ParserInv, NEW r \in Runs, ReadWrongPage(r)
  PROVE  ParserInv'
<1>. DEFINE served == Served(LastPost + 1)
<1>1. served \subseteq Present
  BY DEF Served
<1>2. Scanning(r) /\ TurnPage(r, served, TRUE) /\ UNCHANGED <<channel, published>>
  BY DEF ReadWrongPage, ChannelUnchanged
<1>. HIDE DEF served
<1>3. PICK s \in RunStates : Turned(r, served, TRUE, s) /\ run' = [run EXCEPT ![r] = s]
  BY <1>1, <1>2, TurnsTo
<1>4. CollectedInv(s) /\ SteadyInv(s)
  BY <1>1, <1>2, <1>3, TurnedCollected
<1>5. ScanInv(s)
  BY <1>3 DEF Turned, ScanInv, Unbroken
<1>. QED
  BY <1>2, <1>3, <1>4, <1>5, OneRunKeeps DEF RunInv

\* A page of the channel covers the steady posts above any post it has.
LEMMA PageCovers ==
  ASSUME ParserInv, NEW r \in Runs, Scanning(r), Unbroken(run[r]),
         NEW p \in run[r].steady,
         NEW q \in Served(run[r].before), q <= p
  PROVE  \E x \in Collected(r, Served(run[r].before)) : x.post = p
<1>. DEFINE t == run[r]
            served == Served(t.before)
            items == Collected(r, served)
<1>1. RunInv(t) /\ t \in RunStates /\ t.stage = "fetch"
  BY DEF ParserInv, Scanning, InStage, RunInv, CollectedInv
<1>2. t.before \in Nat /\ t.seen \subseteq Posts /\ t.steady \subseteq Posts
  BY <1>1, ParserAssumption DEF RunStates
<1>3. p \in Nat /\ p \in Present /\ channel[p].age = "fresh" /\ channel[p].text # "none"
  BY <1>1, ParserAssumption DEF RunInv, SteadyInv, Present, Posts
<1>4. served \in SUBSET Present
  BY DEF Served
<1>5. Covers(items, WithText(OfAge(Unseen(r, served), "fresh")))
      /\ (t.items # {} => t.items \subseteq items)
  BY <1>4, CollectedIs
<1>6. CASE t.before <= p
  <2>1. \E x \in t.items : x.post = p
    BY <1>1, <1>6 DEF RunInv, ScanInv, Covers
  <2>. QED
    BY <1>5, <2>1
<1>7. CASE ~ (t.before <= p)
  <2>1. p < t.before
    BY <1>2, <1>3, <1>7
  <2>2. p \in served
    BY <1>2, <1>3, <2>1, ServedUp
  <2>3. p \notin t.seen
    BY <1>1, <1>7 DEF RunInv, ScanInv
  <2>4. p \in WithText(OfAge(Unseen(r, served), "fresh"))
    BY <1>3, <2>2, <2>3 DEF WithText, OfAge, Unseen
  <2>. QED
    BY <1>5, <2>4 DEF Covers
<1>. QED
  BY <1>6, <1>7

\* Where the scan ends no steady post lies further back.
LEMMA LastCovers ==
  ASSUME ParserInv, NEW r \in Runs, Scanning(r), Unbroken(run[r]),
         LastPage(r, Served(run[r].before)), NEW p \in run[r].steady
  PROVE  \E x \in Collected(r, Served(run[r].before)) : x.post = p
<1>. DEFINE t == run[r]
            served == Served(t.before)
            items == Collected(r, served)
<1>1. RunInv(t) /\ t \in RunStates /\ t.stage = "fetch" /\ ChannelInv
  BY DEF ParserInv, Scanning, InStage, RunInv, CollectedInv
<1>2. t.before \in Nat
  BY <1>1, ParserAssumption DEF RunStates
<1>3. p \in Nat /\ p >= 1 /\ p \in Present /\ channel[p].age = "fresh"
  BY <1>1, ParserAssumption DEF RunInv, SteadyInv, Present, Posts
<1>4. served \in SUBSET Present /\ Present \subseteq Nat /\ \A q \in served : q < t.before
  BY ParserAssumption DEF Served, Present, Posts
<1>5. Unseen(r, served) = served
  <2>1. \A q \in t.seen : t.before <= q
    BY <1>1 DEF RunInv, ScanInv
  <2>2. ASSUME NEW q \in served PROVE q \notin t.seen
    <3>1. q < t.before /\ q \in Nat
      BY <1>4
    <3>. QED
      BY <1>2, <2>1, <3>1
  <2>. QED
    BY <2>2 DEF Unseen
<1>6. CASE t.before <= p
  <2>1. \E x \in t.items : x.post = p
    BY <1>1, <1>6 DEF RunInv, ScanInv, Covers
  <2>2. t.items # {} => t.items \subseteq items
    BY <1>4, CollectedIs
  <2>. QED
    BY <2>1, <2>2
<1>7. CASE ~ (t.before <= p)
  <2>1. served # {}
    BY <1>2, <1>3, <1>7, ServedSome
  <2>2. \E q \in served : q <= p
    <3>1. CASE OfAge(served, "stale") # {}
      <4>1. PICK q \in served : channel[q].age = "stale"
        BY <3>1 DEF OfAge
      <4>2. q \in Present /\ q \in Nat
        BY <1>4
      <4>3. ~ (p < q)
        BY <1>1, <1>3, <4>1, <4>2 DEF ChannelInv
      <4>. QED
        BY <1>3, <4>2, <4>3
    <3>2. CASE 1 \in served
      BY <1>3, <3>2
    <3>. QED
      BY <1>5, <2>1, <3>1, <3>2 DEF LastPage
  <2>. QED
    BY <2>2, PageCovers
<1>. QED
  BY <1>6, <1>7

LEMMA ReadPageKeeps ==
  ASSUME ParserInv, NEW r \in Runs, ReadPage(r)
  PROVE  ParserInv'
<1>. DEFINE t == run[r]
            served == Served(t.before)
            items == Collected(r, served)
<1>1. served \in SUBSET Present /\ \A q \in served : q < t.before
  BY DEF Served
<1>2. Scanning(r) /\ TurnPage(r, served, FALSE) /\ UNCHANGED <<channel, published>>
  BY DEF ReadPage, ChannelUnchanged
<1>3. PICK s \in RunStates : Turned(r, served, FALSE, s) /\ run' = [run EXCEPT ![r] = s]
  BY <1>1, <1>2, TurnsTo
<1>4. CollectedInv(s) /\ SteadyInv(s)
  BY <1>1, <1>2, <1>3, TurnedCollected
<1>5. ASSUME Unbroken(s)
      PROVE  /\ s.stage \in {"fetch", "parsed", "failed"}
             /\ s.stage = "fetch" =>
                  /\ \A p \in s.seen : s.before <= p
                  /\ Covers(s.items, {p \in s.steady : s.before <= p})
             /\ s.stage = "parsed" => Covers(s.items, s.steady)
  <2>1. Unbroken(t)
    BY <1>3, <1>5 DEF Turned, Unbroken
  <2>2. RunInv(t) /\ t \in RunStates /\ t.stage = "fetch" /\ s.steady = t.steady
    BY <1>2, <1>3 DEF ParserInv, Scanning, InStage, RunInv, CollectedInv, Turned
  <2>3. /\ t.before \in Nat /\ t.seen \subseteq Posts /\ served \subseteq Posts
        /\ Posts \subseteq Nat
    BY <2>2, ParserAssumption DEF RunStates, Served, Present, Posts
  <2>4. CASE s.stage = "fetch"
    <3>1. ~ LastPage(r, served) /\ s.before = Lowest(Unseen(r, served)) /\ s.items = items
          /\ s.seen = t.seen \cup served
      BY <1>3, <2>4 DEF Turned
    <3>. DEFINE l == Lowest(Unseen(r, served))
    <3>2. Unseen(r, served) # {} /\ Unseen(r, served) \subseteq served
      BY <3>1 DEF LastPage, Unseen
    <3>3. l \in Unseen(r, served) /\ \A q \in Unseen(r, served) : l <= q
      BY <2>3, <3>2, LowestIs
    <3>. HIDE DEF l
    <3>4. l \in served /\ l \in Nat /\ l < t.before
      BY <1>1, <2>3, <3>2, <3>3
    <3>5. ASSUME NEW p \in s.seen PROVE l <= p
      <4>1. CASE p \in t.seen
        <5>1. t.before <= p /\ p \in Nat
          BY <2>1, <2>2, <2>3, <4>1 DEF RunInv, ScanInv
        <5>. QED
          BY <2>3, <3>4, <5>1
      <4>2. CASE p \notin t.seen
        BY <3>1, <3>3, <4>2 DEF Unseen
      <4>. QED
        BY <4>1, <4>2
    <3>6. ASSUME NEW p \in s.steady, l <= p PROVE \E x \in items : x.post = p
      BY <1>2, <2>1, <2>2, <3>4, <3>6, PageCovers
    <3>. QED
      BY <2>4, <3>1, <3>5, <3>6 DEF l, Covers
  <2>5. CASE s.stage # "fetch"
    <3>1. s.stage = "parsed" /\ LastPage(r, served)
          /\ s.items = Returned(items, KeptStale(r, served))
      BY <1>3, <1>5, <2>5 DEF Turned, Unbroken
    <3>2. \A p \in s.steady : \E x \in items : x.post = p
      BY <1>2, <2>1, <2>2, <3>1, LastCovers
    <3>3. Covers(s.items, s.steady)
      BY <3>1, <3>2 DEF Covers, Returned
    <3>. QED
      BY <3>1, <3>3
  <2>. QED
    BY <2>4, <2>5
<1>6. ScanInv(s)
  BY <1>5 DEF ScanInv
<1>. QED
  BY <1>2, <1>3, <1>4, <1>6, OneRunKeeps DEF RunInv

(***************************************************************************)
(* The other readers, and the channel.                                     *)
(***************************************************************************)
LEMMA OtherReader ==
  ASSUME NEW t, RunInv(t), ~ Unbroken(t), NEW s \in RunStates,
         s.stage \in {"parsed", "failed", "direct"}, OneEach(s.items),
         s.input = t.input, s.cut = t.cut, s.steady = t.steady, s.stale = t.stale
  PROVE  RunInv(s)
BY DEF RunInv, CollectedInv, SteadyInv, ScanInv, Unbroken

LEMMA PageItemIs ==
  ASSUME NEW date \in {"text", "none"}
  PROVE  {PageItem(date)} \subseteq Items /\ OneEach({PageItem(date)})
BY ParserAssumption DEF PageItem, Items, OneEach

LEMMA ReadPostKeeps ==
  ASSUME ParserInv, NEW r \in Runs, ReadPost(r)
  PROVE  ParserInv'
<1>. DEFINE t == run[r]
            found == Candidates({t.input.post} \cap Present, 0)
            stage == IF found = {} THEN "direct" ELSE "parsed"
            s == [t EXCEPT !.items = found, !.attempt = 0, !.stage = stage]
<1>1. /\ RunInv(t) /\ t \in RunStates /\ ChannelInv
      /\ UNCHANGED <<channel, published>>
  BY DEF ParserInv, ReadPost, InStage, RunInv, CollectedInv, ChannelUnchanged
<1>2. ~ Unbroken(t)
  BY DEF ReadPost, Single, Unbroken
<1>3. 0 \in 0..MaxPages /\ 0 \in 0..Retries
  BY ParserAssumption
<1>4. found \subseteq Items /\ OneEach(found)
  BY <1>1, <1>3, CandidatesAre
<1>5. run' = [run EXCEPT ![r] = s]
  BY DEF ReadPost
<1>6. stage \in {"direct", "parsed"}
  OBVIOUS
<1>. HIDE DEF found, stage
<1>7. s \in RunStates /\ s.stage = stage /\ s.items = found
      /\ s.input = t.input /\ s.cut = t.cut /\ s.steady = t.steady /\ s.stale = t.stale
  BY <1>1, <1>3, <1>4, <1>6 DEF RunStates
<1>. HIDE DEF s
<1>8. RunInv(s)
  BY <1>1, <1>2, <1>4, <1>6, <1>7, OtherReader
<1>. QED
  BY <1>1, <1>5, <1>8, OneRunKeeps

LEMMA ReadOnceKeeps ==
  ASSUME ParserInv, NEW r \in Runs, ReadDirect(r) \/ ReadSite(r)
  PROVE  ParserInv'
<1>. DEFINE t == run[r]
<1>1. /\ RunInv(t) /\ t \in RunStates /\ UNCHANGED <<channel, published>>
  BY DEF ParserInv, ReadDirect, ReadSite, InStage, RunInv, CollectedInv, ChannelUnchanged
<1>2. ~ Unbroken(t)
  BY <1>1 DEF ReadDirect, ReadSite, InStage, Unbroken, RunInv, ScanInv
<1>3. \E found \in SUBSET Items, stage \in {"parsed", "failed"} :
        OneEach(found)
          /\ run' = [run EXCEPT ![r] = [t EXCEPT !.stage = stage, !.items = found]]
  <2>1. {} \subseteq Items /\ OneEach({})
    BY DEF OneEach
  <2>2. CASE ReadDirect(r)
    <3>1. PICK found \in {{}, {PageItem("none")}} :
            run' = [run EXCEPT ![r].items = found,
                               ![r].stage = IF found = {} THEN "failed" ELSE "parsed"]
      BY <2>2 DEF ReadDirect
    <3>. DEFINE stage == IF found = {} THEN "failed" ELSE "parsed"
    <3>2. found \subseteq Items /\ OneEach(found) /\ stage \in {"parsed", "failed"}
      BY <2>1, PageItemIs
    <3>. HIDE DEF stage
    <3>3. run' = [run EXCEPT ![r].items = found, ![r].stage = stage]
      BY <3>1 DEF stage
    <3>4. [t EXCEPT !.items = found, !.stage = stage]
            = [t EXCEPT !.stage = stage, !.items = found]
      BY <1>1 DEF RunStates
    <3>5. run' = [run EXCEPT ![r] = [t EXCEPT !.items = found, !.stage = stage]]
      BY <3>3
    <3>6. run' = [run EXCEPT ![r] = [t EXCEPT !.stage = stage, !.items = found]]
      BY <3>4, <3>5
    <3>. QED
      BY <3>2, <3>6
  <2>3. CASE ReadSite(r)
    <3>1. PICK page \in SitePages, date \in {"text", "none"} :
            run' = [run EXCEPT
              ![r].stage = IF Yields(Source(run[r].input), page) THEN "parsed" ELSE "failed",
              ![r].items = IF Yields(Source(run[r].input), page)
                           THEN {PageItem(date)} ELSE {}]
      BY <2>3 DEF ReadSite
    <3>. DEFINE yields == Yields(Source(t.input), page)
                stage == IF yields THEN "parsed" ELSE "failed"
                found == IF yields THEN {PageItem(date)} ELSE {}
    <3>2. found \subseteq Items /\ OneEach(found) /\ stage \in {"parsed", "failed"}
      BY <2>1, PageItemIs
    <3>3. run' = [run EXCEPT ![r] = [t EXCEPT !.stage = stage, !.items = found]]
      BY <3>1
    <3>. HIDE DEF stage, found
    <3>. QED
      BY <3>2, <3>3
  <2>. QED
    BY <2>2, <2>3
<1>4. PICK found \in SUBSET Items, stage \in {"parsed", "failed"} :
        OneEach(found)
          /\ run' = [run EXCEPT ![r] = [t EXCEPT !.stage = stage, !.items = found]]
  BY <1>3
<1>. DEFINE s == [t EXCEPT !.stage = stage, !.items = found]
<1>5. s \in RunStates /\ s.stage = stage /\ s.items = found
      /\ s.input = t.input /\ s.cut = t.cut /\ s.steady = t.steady /\ s.stale = t.stale
  BY <1>1, <1>4 DEF RunStates
<1>6. run' = [run EXCEPT ![r] = s]
  BY <1>4
<1>. HIDE DEF s
<1>7. RunInv(s)
  BY <1>1, <1>2, <1>4, <1>5, OtherReader
<1>. QED
  BY <1>1, <1>6, <1>7, OneRunKeeps

LEMMA PublishKeeps ==
  ASSUME ParserInv, Publish
  PROVE  ParserInv'
<1>. DEFINE n == published + 1
<1>1. ChannelInv /\ UNCHANGED run /\ published' = n /\ published < LastPost
  BY DEF ParserInv, Publish
<1>2. PICK text \in Texts :
        channel' = [channel EXCEPT ![n] = [age |-> "fresh", text |-> text]]
  BY DEF Publish
<1>3. n \in Posts /\ published \in Nat /\ LastPost \in Nat /\ Posts \subseteq Nat
      /\ n \in 0..LastPost
  BY <1>1, ParserAssumption DEF ChannelInv, Posts
<1>4. \E k \in 1..3 : Ages[k] = "fresh"
  BY DEF Ages
<1>5. [age |-> "fresh", text |-> text] \in PostKinds
  BY <1>4 DEF PostKinds
<1>6. channel' \in [Posts -> PostKinds \cup {Absent}]
  BY <1>1, <1>2, <1>5 DEF ChannelInv
<1>7. channel'[n] = [age |-> "fresh", text |-> text]
      /\ \A p \in Posts \ {n} : channel'[p] = channel[p]
  BY <1>1, <1>2, <1>3 DEF ChannelInv
<1>8. \A p \in Present : p < n /\ p \in Posts
  <2>1. ASSUME NEW p \in Present PROVE p < n
    <3>1. ~ (published < p) /\ p \in Nat
      BY <1>1, <1>3 DEF ChannelInv, Present
    <3>. QED
      BY <1>3, <3>1
  <2>. QED
    BY <2>1 DEF Present
<1>9. \A p \in Present' : p = n \/ p \in Present
  BY <1>7 DEF Present
<1>10. Present \subseteq Present'
  <2>1. \A p \in Present : p # n
    BY <1>3, <1>8
  <2>. QED
    BY <1>7, <1>8, <2>1 DEF Present
<1>11. ChannelInv'
  <2>1. \A p \in Posts : n < p => channel'[p] = Absent
    <3>1. ASSUME NEW p \in Posts, n < p PROVE channel'[p] = Absent
      <4>1. p \in Nat /\ published < p /\ p # n
        BY <1>3, <3>1
      <4>. QED
        BY <1>1, <1>7, <4>1 DEF ChannelInv
    <3>. QED
      BY <3>1
  <2>2. ASSUME NEW p \in Present', NEW q \in Present', p < q,
               channel'[p].age = "fresh", channel'[q].age = "stale"
        PROVE  FALSE
    <3>1. q \in Present /\ q # n
      BY <1>3, <1>7, <1>8, <1>9, <2>2
    <3>2. p # n
      <4>1. q < n /\ q \in Nat /\ n \in Nat
        BY <1>3, <1>8, <3>1
      <4>. QED
        BY <2>2, <4>1
    <3>3. p \in Present /\ channel[p] = channel'[p] /\ channel[q] = channel'[q]
      BY <1>7, <1>9, <3>1, <3>2 DEF Present
    <3>. QED
      BY <1>1, <2>2, <3>1, <3>3 DEF ChannelInv
  <2>. QED
    BY <1>1, <1>3, <1>6, <2>1, <2>2 DEF ChannelInv
<1>12. ASSUME NEW s, RunInv(s) PROVE RunInv(s)'
  <2>1. \A p \in Present : channel'[p] = channel[p]
    <3>1. \A p \in Present : p # n
      BY <1>3, <1>8
    <3>. QED
      BY <1>7, <1>8, <3>1
  <2>2. SteadyInv(s)'
    BY <1>10, <1>12, <2>1 DEF RunInv, SteadyInv
  <2>. QED
    BY <1>12, <2>2 DEF RunInv, CollectedInv, ScanInv, Unbroken
<1>. QED
  BY <1>1, <1>11, <1>12 DEF ParserInv

LEMMA WithdrawKeeps ==
  ASSUME ParserInv, NEW p \in Posts, Withdraw(p)
  PROVE  ParserInv'
<1>1. /\ ChannelInv /\ channel' = [channel EXCEPT ![p] = Absent] /\ UNCHANGED published
      /\ run' = [r \in Runs |->
           IF run[r] = NoRun THEN NoRun ELSE [run[r] EXCEPT !.steady = @ \ {p}]]
  BY DEF ParserInv, Withdraw
<1>2. channel' \in [Posts -> PostKinds \cup {Absent}] /\ channel'[p] = Absent
      /\ \A q \in Posts \ {p} : channel'[q] = channel[q]
  BY <1>1 DEF ChannelInv
<1>3. Present' = Present \ {p} /\ \A q \in Present' : channel'[q] = channel[q]
  BY <1>2 DEF Present
<1>4. ChannelInv'
  BY <1>1, <1>2, <1>3 DEF ChannelInv
<1>5. ASSUME NEW r \in Runs, run[r] # NoRun
      PROVE  run'[r] \in RunStates /\ RunInv(run[r])'
  <2>. DEFINE t == run[r]
  <2>0. PICK s : s = [t EXCEPT !.steady = @ \ {p}]
    OBVIOUS
  <2>1. RunInv(t) /\ t \in RunStates /\ run'[r] = s
    BY <1>1, <1>5, <2>0 DEF ParserInv, RunInv, CollectedInv
  <2>2. s \in RunStates /\ s.stage = t.stage /\ s.cut = t.cut /\ s.page = t.page
        /\ s.items = t.items /\ s.seen = t.seen /\ s.stale = t.stale
        /\ s.steady = t.steady \ {p} /\ s.before = t.before /\ s.input = t.input
    BY <2>0, <2>1 DEF RunStates
  <2>3. CollectedInv(s)
    BY <2>1, <2>2 DEF RunInv, CollectedInv
  <2>4. SteadyInv(s)'
    BY <1>3, <2>1, <2>2 DEF RunInv, SteadyInv
  <2>5. ScanInv(s)
    BY <2>1, <2>2 DEF RunInv, ScanInv, Unbroken, Covers
  <2>. QED
    BY <2>1, <2>2, <2>3, <2>4, <2>5 DEF RunInv, CollectedInv, ScanInv, Unbroken
<1>6. ASSUME NEW r \in Runs, run[r] = NoRun PROVE run'[r] = NoRun
  BY <1>1, <1>6
<1>7. run' \in [Runs -> RunStates \cup {NoRun}]
  BY <1>1, <1>5, <1>6
<1>8. \A r \in Runs : run'[r] # NoRun => RunInv(run[r])'
  BY <1>5, <1>6
<1>. QED
  BY <1>4, <1>7, <1>8 DEF ParserInv

(***************************************************************************)
(* Both together.                                                          *)
(***************************************************************************)
RequestInv == ParserInv /\ StoredInv

LEMMA RequestInitial == Init => RequestInv
BY ParserInitial DEF Init, RequestInv, StoredInv, ParserInv, ParserInit

LEMMA ParsingKeeps ==
  ASSUME RequestInv, Parsing
  PROVE  RequestInv'
<1>1. ParserInv /\ StoredInv /\ UNCHANGED <<saved, verdict>>
  BY DEF RequestInv, Parsing, requestVars
<1>2. CASE Publish
  <2>1. UNCHANGED run
    BY <1>2 DEF Publish
  <2>2. StoredInv'
    BY <1>1, <2>1 DEF StoredInv
  <2>. QED
    BY <1>1, <1>2, <2>2, PublishKeeps DEF RequestInv
<1>3. ASSUME NEW p \in Posts, Withdraw(p) PROVE RequestInv'
  <2>1. ASSUME NEW r \in Runs, run[r] # NoRun
        PROVE  /\ run'[r] # NoRun
               /\ run'[r].stage = run[r].stage /\ run'[r].items = run[r].items
    <3>1. run'[r] = IF run[r] = NoRun THEN NoRun ELSE [run[r] EXCEPT !.steady = @ \ {p}]
      BY <1>3 DEF Withdraw
    <3>2. run[r] # NoRun
      BY <2>1, <3>1
    <3>3. run[r] \in RunStates
      BY <1>1, <3>2 DEF ParserInv, RunInv, CollectedInv
    <3>4. /\ run'[r] \in RunStates
          /\ run'[r].stage = run[r].stage /\ run'[r].items = run[r].items
      BY <3>1, <3>2, <3>3 DEF RunStates
    <3>. QED
      BY <3>2, <3>4, SlotAssumption
  <2>2. StoredInv'
    BY <1>1, <2>1 DEF StoredInv
  <2>. QED
    BY <1>1, <1>3, <2>2, WithdrawKeeps DEF RequestInv
<1>4. ASSUME NEW r \in Runs,
             FetchRetried(r) \/ FetchFails(r) \/ ReadPage(r) \/ ReadWrongPage(r)
               \/ ReadPost(r) \/ ReadDirect(r) \/ ReadSite(r)
      PROVE  RequestInv'
  <2>1. ParserInv'
    BY <1>1, <1>4, FetchRetriedKeeps, FetchFailsKeeps, ReadPageKeeps, WrongPageKeeps,
       ReadPostKeeps, ReadOnceKeeps
  <2>2. run[r] # NoRun /\ run[r].stage \in {"fetch", "direct"}
    BY <1>4 DEF FetchRetried, FetchFails, ReadPage, ReadWrongPage, ReadPost, ReadDirect,
                ReadSite, Scanning, InStage
  <2>3. \A q \in Runs \ {r} : run'[q] = run[q]
    BY <1>1, <1>4 DEF FetchRetried, FetchFails, ReadPage, ReadWrongPage, ReadPost,
                      ReadDirect, ReadSite, TurnPage, Set, ParserInv
  <2>4. verdict[r] # "ok"
    BY <1>1, <2>2 DEF StoredInv
  <2>5. StoredInv'
    BY <1>1, <2>3, <2>4 DEF StoredInv
  <2>. QED
    BY <2>1, <2>5 DEF RequestInv
<1>. QED
  BY <1>2, <1>3, <1>4 DEF Parsing, ParserNext

LEMMA ParseKeeps ==
  ASSUME RequestInv, NEW r \in Runs, NEW input \in Inputs, Parse(r, input)
  PROVE  RequestInv'
<1>. DEFINE s == NewRun(input)
<1>1. ParserInv /\ StoredInv /\ UNCHANGED <<channel, published, saved, verdict>>
      /\ run' = [run EXCEPT ![r] = s]
  BY DEF RequestInv, Parse, Set, requestVars
<1>2. RunInv(s)
  BY <1>1, NewRunInv
<1>3. s.stage # "parsed"
  BY DEF NewRun
<1>. HIDE DEF s
<1>4. ParserInv'
  BY <1>1, <1>2, OneRunKeeps
<1>5. StoredInv'
  BY <1>1 DEF StoredInv, ParserInv, Parse
<1>. QED
  BY <1>4, <1>5 DEF RequestInv

\* The last of the items makes the answer ok.
LEMMA StoreItemKeeps ==
  ASSUME RequestInv, NEW r \in Runs, StoreItem(r)
  PROVE  RequestInv'
<1>1. ParserInv /\ StoredInv /\ UNCHANGED <<channel, published, run, faults>>
      /\ run[r] # NoRun /\ run[r].stage = "parsed"
  BY DEF RequestInv, StoreItem, parserVars, Saving
<1>2. PICK item \in run[r].items :
        /\ saved' = [saved EXCEPT ![r] = @ \cup {item}]
        /\ verdict' = [verdict EXCEPT ![r] =
             IF run[r].items \subseteq saved[r] \cup {item} THEN "ok" ELSE "open"]
  BY DEF StoreItem, Ends
<1>3. item \in Items
  BY <1>1, <1>2 DEF ParserInv, RunInv, CollectedInv, RunStates
<1>4. ParserInv'
  BY <1>1 DEF ParserInv, ChannelInv, Present, RunInv, CollectedInv, SteadyInv, ScanInv,
              Unbroken
<1>5. saved' \in [Runs -> SUBSET Items] /\ verdict' \in [Runs -> {"open", "ok", "error", "broken"}]
  BY <1>1, <1>2, <1>3 DEF StoredInv
<1>6. ASSUME NEW q \in Runs, verdict'[q] = "ok"
      PROVE  run'[q] # NoRun /\ run'[q].stage = "parsed" /\ run'[q].items \subseteq saved'[q]
  <2>1. CASE q = r
    BY <1>1, <1>2, <1>6, <2>1 DEF StoredInv
  <2>2. CASE q # r
    BY <1>1, <1>2, <1>6, <2>2 DEF StoredInv
  <2>. QED
    BY <2>1, <2>2
<1>. QED
  BY <1>4, <1>5, <1>6 DEF RequestInv, StoredInv

LEMMA VerdictKeeps ==
  ASSUME RequestInv, NEW r \in Runs, UNCHANGED <<channel, published, run, saved>>,
         Ends(r, "error")
  PROVE  RequestInv'
<1>1. ParserInv'
  BY DEF RequestInv, ParserInv, ChannelInv, Present, RunInv, CollectedInv, SteadyInv,
         ScanInv, Unbroken
<1>2. StoredInv'
  BY DEF RequestInv, StoredInv, Ends
<1>. QED
  BY <1>1, <1>2 DEF RequestInv

LEMMA BrokenKeeps ==
  ASSUME RequestInv, NEW r \in Runs, ParseBroken(r)
  PROVE  RequestInv'
<1>. DEFINE t == run[r]
            s == [t EXCEPT !.stage = t.stage, !.cut = TRUE]
<1>1. /\ ParserInv /\ StoredInv /\ UNCHANGED <<channel, published, saved>>
      /\ verdict' = [verdict EXCEPT ![r] = "broken"]
      /\ run' = [run EXCEPT ![r].cut = TRUE] /\ RunInv(t) /\ t \in RunStates
  BY DEF RequestInv, ParseBroken, Ends, ParserInv, RunInv, CollectedInv
<1>2. t.stage \in {"fetch", "direct", "parsed", "failed"}
  BY <1>1 DEF RunStates
<1>3. RunInv(s)
  BY <1>1, <1>2, FailureKeeps
<1>4. [t EXCEPT !.cut = TRUE] = s
  BY <1>1 DEF RunStates
<1>5. run' = [run EXCEPT ![r] = s]
  BY <1>1, <1>4
<1>. HIDE DEF s
<1>6. ParserInv'
  BY <1>1, <1>3, <1>5, OneRunKeeps
<1>7. StoredInv'
  BY <1>1, <1>5 DEF StoredInv, ParserInv
<1>. QED
  BY <1>6, <1>7 DEF RequestInv

LEMMA RespondKeeps ==
  ASSUME RequestInv, NEW r \in Runs, Respond(r)
  PROVE  RequestInv'
<1>1. /\ ParserInv /\ StoredInv /\ UNCHANGED <<channel, published>>
      /\ run' = [run EXCEPT ![r] = NoRun]
      /\ saved' = [saved EXCEPT ![r] = {}] /\ verdict' = [verdict EXCEPT ![r] = "open"]
  BY DEF RequestInv, Respond, Set, Ends
<1>2. ChannelInv'
  BY <1>1 DEF ParserInv, ChannelInv, Present
<1>3. \A q \in Runs : run'[q] # NoRun => q # r /\ run'[q] = run[q]
  BY <1>1 DEF ParserInv
<1>4. run' \in [Runs -> RunStates \cup {NoRun}]
  BY <1>1 DEF ParserInv
<1>5. ParserInv'
  BY <1>1, <1>2, <1>3, <1>4 DEF ParserInv, RunInv, CollectedInv, SteadyInv, Present,
                                ScanInv, Unbroken
<1>6. StoredInv'
  BY <1>1, <1>3 DEF StoredInv
<1>. QED
  BY <1>5, <1>6 DEF RequestInv

LEMMA RequestStays ==
  ASSUME RequestInv, UNCHANGED <<channel, published, run, saved, verdict>>
  PROVE  RequestInv'
BY DEF RequestInv, ParserInv, ChannelInv, Present, RunInv, CollectedInv, SteadyInv,
       ScanInv, Unbroken, StoredInv

LEMMA CrashRequests ==
  ASSUME RequestInv, Crash
  PROVE  RequestInv'
<1>1. ChannelInv'
  BY DEF RequestInv, ParserInv, ChannelInv, Present, Crash
<1>2. \A r \in Runs : run'[r] = NoRun
  BY DEF Crash
<1>3. ParserInv'
  BY <1>1, <1>2 DEF ParserInv, Crash
<1>4. StoredInv'
  BY <1>2 DEF StoredInv, Crash
<1>. QED
  BY <1>3, <1>4 DEF RequestInv

LEMMA RequestStep == RequestInv /\ [Next]_vars => RequestInv'
<1>1. SUFFICES ASSUME RequestInv, [Next]_vars PROVE RequestInv'
  OBVIOUS
<1>2. CASE Parsing
  BY <1>1, <1>2, ParsingKeeps
<1>3. ASSUME NEW r \in Runs, NEW input \in Inputs, Parse(r, input) PROVE RequestInv'
  BY <1>1, <1>3, ParseKeeps
<1>4. ASSUME NEW r \in Runs, StoreItem(r) PROVE RequestInv'
  BY <1>1, <1>4, StoreItemKeeps
<1>5. ASSUME NEW r \in Runs, StoreRefused(r) \/ StoreError(r) PROVE RequestInv'
  BY <1>1, <1>5, VerdictKeeps DEF StoreRefused, StoreError, parserVars
<1>6. ASSUME NEW r \in Runs, ParseBroken(r) PROVE RequestInv'
  BY <1>1, <1>6, BrokenKeeps
<1>7. ASSUME NEW r \in Runs, Respond(r) PROVE RequestInv'
  BY <1>1, <1>7, RespondKeeps
<1>8. ASSUME NEW w \in Rows, RejectParsedEvent(w) \/ DeleteParsedEvent(w) \/ DeleteEvent(w)
      PROVE  RequestInv'
  BY <1>1, <1>8, RequestStays DEF RejectParsedEvent, DeleteParsedEvent, DeleteEvent,
                                  parserVars, requestVars
<1>9. ASSUME NEW i \in Imports, NEW w \in Rows, ImportRead(i, w) PROVE RequestInv'
  BY <1>1, <1>9, RequestStays DEF ImportRead, parserVars
<1>10. ASSUME NEW i \in Imports, ImportParsedEvent(i) \/ ImportRefused(i) PROVE RequestInv'
  BY <1>1, <1>10, RequestStays DEF ImportParsedEvent, ImportRefused, parserVars
<1>11. CASE Crash
  BY <1>1, <1>11, CrashRequests
<1>12. CASE UNCHANGED vars
  BY <1>1, <1>12, RequestStays DEF vars, parserVars, requestVars
<1>. QED
  BY <1>1, <1>2, <1>3, <1>4, <1>5, <1>6, <1>7, <1>8, <1>9, <1>10, <1>11, <1>12 DEF Next

LEMMA RequestInvariant == Spec => []RequestInv
<1>1. Init => RequestInv
  BY RequestInitial
<1>2. RequestInv /\ [Next]_vars => RequestInv'
  BY RequestStep
<1>. QED
  BY <1>1, <1>2, PTL DEF Spec

\* ParseMany makes at most one event of a post in one run, however the pages
\* overlap, whatever is published and withdrawn between them, and with whatever
\* page t.me answers.
THEOREM EachPostOnceTheorem == Spec => []EachPostOnce
<1>1. RequestInv => EachPostOnce
  BY DEF RequestInv, ParserInv, RunInv, CollectedInv, OneEach, EachPostOnce
<1>. QED
  BY <1>1, RequestInvariant, PTL

\* A parse request that answers 200, and whose scan nothing cut short, has
\* stored every post with text that was in the window all the time: for channels
\* and pages of any size.
THEOREM WindowStoredTheorem == Spec => []WindowStored
<1>1. ASSUME RequestInv, NEW r \in Runs, ScansChannel(r), verdict[r] = "ok", ~ run[r].cut
      PROVE  run[r].steady \subseteq StoredPosts(r)
  <2>1. run[r] # NoRun /\ RunInv(run[r]) /\ Unbroken(run[r])
    BY <1>1 DEF RequestInv, ParserInv, ScansChannel, Single, Unbroken
  <2>2. run[r].stage = "parsed" /\ run[r].items \subseteq saved[r]
    BY <1>1, <2>1 DEF RequestInv, StoredInv
  <2>3. Covers(run[r].items, run[r].steady)
    BY <2>1, <2>2 DEF RunInv, ScanInv
  <2>. QED
    BY <2>2, <2>3 DEF Covers, StoredPosts
<1>2. RequestInv => WindowStored
  BY <1>1 DEF WindowStored
<1>. QED
  BY <1>2, RequestInvariant, PTL
=============================================================================
