---------------------------- MODULE EventParser ----------------------------
(***************************************************************************)
(* The event parser (internal/eventparser): the dispatcher that picks a    *)
(* parser for an input, the fetcher with its retries, and what each parser *)
(* makes of the pages it is served.  A Telegram channel is read page by    *)
(* page, from the newest post back to the first one older than 24 hours,   *)
(* while posts are published and deleted.                                  *)
(*                                                                         *)
(* A post is its age at the start of the run and what its text offers;     *)
(* t.me, vk.com and the other sites are external.                          *)
(***************************************************************************)
EXTENDS Naturals, FiniteSets

CONSTANTS
  Runs,        \* parse requests that may run at the same time
  LastPost,    \* bound on the ids of posts
  PageSize,    \* posts on a page of t.me/s/<channel>, 20 there
  MaxPages,    \* maxPages, 8 in the code
  Retries,     \* HTTPFetcherConfig.Retries, 0 as deployed
  Inputs,      \* what administrators ask to parse
  Texts,       \* what the text of a post offers
  MaxFaults,   \* bound on fetches, statements and processes that fail
  Absent,      \* a post that is not published yet, or deleted
  WholePage,   \* the pseudo post the text of a whole page makes
  NoRun        \* a free slot of Runs

Posts == 1..LastPost

Ages == <<"stale", "fresh", "ahead">>

\* "split" is a first line that 120 bytes cut in the middle of a letter.
PostKinds == [age : {Ages[n] : n \in 1..3}, text : Texts]

ASSUME ParserAssumption ==
  /\ LastPost \in Nat
  /\ PageSize \in Nat \ {0}
  /\ MaxPages \in Nat \ {0}
  /\ Retries \in Nat
  /\ MaxFaults \in Nat
  /\ Texts \subseteq {"dated", "plain", "split", "none"}
  /\ Absent \notin PostKinds
  /\ WholePage \notin Posts

VARIABLES
  channel,    \* external: the posts of the channel
  published,  \* external: the newest id there ever was
  run,        \* what each parse request is doing
  faults      \* history: how many faults there were

parserVars == <<channel, published, run, faults>>

(***************************************************************************)
(* Inputs.  A site is what the text of the input names; words are neither  *)
(* a URL nor a channel name.                                               *)
(***************************************************************************)
TelegramSites == {"name", "channel", "post"}

SourceFromURL(site) == IF site \in TelegramSites THEN "telegram" ELSE site

\* Which parser an input goes to.
Source(input) ==
  CASE input.site = "words" -> "unsupported"
    [] input.explicit = "auto" -> SourceFromURL(input.site)
    [] input.site = "name" /\ input.explicit # "telegram" -> "unsupported"
    [] OTHER -> input.explicit

\* Only t.me names a channel, and only one of its posts a single post.
Understood(input) ==
  \/ Source(input) \in {"web", "vk", "instagram"}
  \/ Source(input) = "telegram" /\ input.site \in TelegramSites

Single(r) == run[r].input.site = "post"

NewRun(input) ==
  [stage  |-> IF Understood(input) THEN "fetch" ELSE "failed",
   input  |-> input,
   before |-> LastPost + 1,
   page   |-> 0,
   attempt |-> 0,
   seen   |-> {},
   items  |-> {},
   stale  |-> {},
   steady |-> {p \in Posts : channel[p] # Absent /\ channel[p].age = "fresh"
                               /\ channel[p].text # "none"},
   cut    |-> FALSE]

Items == [post : Posts \cup {WholePage}, date : {"text", "post", "none"},
          page : 0..MaxPages, storable : BOOLEAN]

RunStates ==
  [stage : {"fetch", "direct", "parsed", "failed"}, input : Inputs,
   before : 1..(LastPost + 1), page : 0..MaxPages, attempt : 0..Retries,
   seen : SUBSET Posts,
   items : SUBSET Items, stale : SUBSET Items,
   steady : SUBSET Posts, cut : BOOLEAN]

ASSUME SlotAssumption == NoRun \notin RunStates

(***************************************************************************)
(* What a page of the channel offers.                                      *)
(***************************************************************************)
Present == {p \in Posts : channel[p] # Absent}

\* External: the newest posts before an id.
Served(before) ==
  {p \in Present : /\ p < before
                   /\ Cardinality({q \in Present : p < q /\ q < before}) < PageSize}

WithText(posts) == {p \in posts : channel[p].text # "none"}

OfAge(posts, age) == {p \in posts : channel[p].age = age}

\* buildEventFromText: the date of the text, and the name GuessName cuts out.
Item(p, otherwise, page) ==
  [post |-> p, page |-> page,
   date |-> IF channel[p].text = "dated" THEN "text" ELSE otherwise,
   storable |-> channel[p].text # "split"]

PageItem(date) == [post |-> WholePage, page |-> 0, date |-> date, storable |-> TRUE]

\* A wrapped post: without a date in its text it has the date of the message.
Candidates(posts, page) == {Item(p, "post", page) : p \in WithText(posts)}

\* The layout without wrappers: the texts alone, or the text of the page.
LayoutItems(posts) ==
  IF WithText(posts) = {} THEN {PageItem("none")}
  ELSE {Item(p, "none", 0) : p \in WithText(posts)}

\* For the mutants: without seenPosts.
UnseenAll(r, served) == served

Unseen(r, served) == served \ run[r].seen

\* The items after a page: the posts of the window, or on the first page
\* whatever text there is.
Collected(r, served) ==
  LET found == run[r].items
                 \cup Candidates(OfAge(Unseen(r, served), "fresh"), run[r].page)
  IN  IF found = {} /\ run[r].page = 0 THEN LayoutItems(served) ELSE found

KeptStale(r, served) ==
  IF run[r].page = 0
  THEN Candidates(OfAge(Unseen(r, served), "stale"), 0) ELSE run[r].stale

\* The scan ends at an older post, or where there is nothing further back.
LastPage(r, served) ==
  LET unseen == Unseen(r, served)
  IN  \/ OfAge(unseen, "stale") # {}
      \/ unseen = {}
      \/ 1 \in unseen

\* For the mutants: the page before the lowest post, which is skipped.
LowestSkipped(posts) == (CHOOSE p \in posts : \A q \in posts : p <= q) - 1

Lowest(posts) == CHOOSE p \in posts : \A q \in posts : p <= q

\* With no post of the window the stale ones of the first page are returned.
Returned(items, stale) == IF items = {} THEN stale ELSE items

ParserInit ==
  /\ published \in 0..LastPost
  /\ channel \in {c \in [Posts -> PostKinds \cup {Absent}] :
       /\ \A p \in Posts : c[p] = Absent <=> p > published
       /\ \A p, q \in 1..published :
            p < q => ~ (c[p].age = "ahead" /\ c[q].age # "ahead")
                     /\ ~ (c[p].age = "fresh" /\ c[q].age = "stale")}
  /\ run = [r \in Runs |-> NoRun]
  /\ faults = 0

Set(r, state) == run' = [run EXCEPT ![r] = state]

InStage(r, stage) == run[r] # NoRun /\ run[r].stage = stage

ChannelUnchanged == UNCHANGED <<channel, published>>

(***************************************************************************)
(* One Get: an answer, or a failure that is retried while attempts are     *)
(* left.  A failure ends the scan with what it has, if it has anything.    *)
(***************************************************************************)
Fault == faults < MaxFaults /\ faults' = faults + 1

FetchRetried(r) ==
  /\ run[r] # NoRun /\ run[r].stage \in {"fetch", "direct"}
  /\ run[r].attempt < Retries
  /\ Fault
  /\ run' = [run EXCEPT ![r].attempt = @ + 1]
  /\ ChannelUnchanged

\* A status of 4xx is not retried, one of 5xx after the last attempt neither.
FetchFails(r) ==
  /\ run[r] # NoRun /\ run[r].stage \in {"fetch", "direct"}
  /\ Fault
  /\ run' = [run EXCEPT ![r].stage = IF run[r].items = {} THEN "failed" ELSE "parsed",
                        ![r].cut = TRUE]
  /\ ChannelUnchanged

\* ParseMany, one page of the channel.
TurnPage(r, served, wrong) ==
  LET items == Collected(r, served)
      stale == KeptStale(r, served)
      ended == LastPage(r, served)
      more  == ~ ended /\ run[r].page + 1 < MaxPages
  IN  Set(r, [run[r] EXCEPT
        !.stage = IF more THEN "fetch" ELSE "parsed",
        !.items = IF more THEN items ELSE Returned(items, stale),
        !.stale = stale,
        !.seen = @ \cup served,
        !.before = IF more THEN Lowest(Unseen(r, served)) ELSE @,
        !.page = @ + 1,
        !.attempt = 0,
        !.cut = @ \/ wrong \/ ~ (more \/ ended)])

Scanning(r) ==
  InStage(r, "fetch") /\ Source(run[r].input) = "telegram" /\ ~ Single(r)

ReadPage(r) ==
  /\ Scanning(r)
  /\ TurnPage(r, Served(run[r].before), FALSE)
  /\ UNCHANGED faults
  /\ ChannelUnchanged

\* External: t.me answers with the newest page, whatever was asked for.
ReadWrongPage(r) ==
  /\ Scanning(r)
  /\ Fault
  /\ TurnPage(r, Served(LastPost + 1), TRUE)
  /\ ChannelUnchanged

\* ParseMany for a single post: the page around it, then the post itself.
ReadPost(r) ==
  /\ InStage(r, "fetch") /\ Source(run[r].input) = "telegram" /\ Single(r)
  /\ LET found == Candidates({run[r].input.post} \cap Present, 0)
     IN  run' = [run EXCEPT ![r].items = found, ![r].attempt = 0,
                            ![r].stage = IF found = {} THEN "direct" ELSE "parsed"]
  /\ UNCHANGED faults
  /\ ChannelUnchanged

\* parseDirectPostFallback: the description of the page, which t.me may also
\* give when there is no such post.
ReadDirect(r) ==
  /\ InStage(r, "direct")
  /\ \E found \in {{}, {PageItem("none")}} :
       run' = [run EXCEPT ![r].items = found,
                          ![r].stage = IF found = {} THEN "failed" ELSE "parsed"]
  /\ UNCHANGED faults
  /\ ChannelUnchanged

(***************************************************************************)
(* The other parsers read one page: a wall that asks for a login, an Event *)
(* in JSON-LD, or fields of the page that look like an event's.            *)
(***************************************************************************)
SitePages == SUBSET {"wall", "json-ld", "fields"}

Yields(source, page) ==
  IF source = "web" THEN page \cap {"json-ld", "fields"} # {}
                    ELSE "wall" \notin page /\ "fields" \in page

ReadSite(r) ==
  /\ InStage(r, "fetch") /\ Source(run[r].input) # "telegram"
  /\ \E page \in SitePages, date \in {"text", "none"} :
       run' = [run EXCEPT
         ![r].stage = IF Yields(Source(run[r].input), page) THEN "parsed" ELSE "failed",
         ![r].items = IF Yields(Source(run[r].input), page)
                      THEN {PageItem(date)} ELSE {}]
  /\ UNCHANGED faults
  /\ ChannelUnchanged

(***************************************************************************)
(* The channel changes while it is read.                                   *)
(***************************************************************************)
Publish ==
  /\ published < LastPost
  /\ published' = published + 1
  /\ \E text \in Texts :
       channel' = [channel EXCEPT ![published + 1] = [age |-> "fresh", text |-> text]]
  /\ UNCHANGED <<run, faults>>

Withdraw(p) ==
  /\ p \in Present
  /\ channel' = [channel EXCEPT ![p] = Absent]
  /\ run' = [r \in Runs |->
       IF run[r] = NoRun THEN NoRun ELSE [run[r] EXCEPT !.steady = @ \ {p}]]
  /\ UNCHANGED <<published, faults>>

ParserNext ==
  \/ Publish
  \/ \E p \in Posts : Withdraw(p)
  \/ \E r \in Runs :
       \/ FetchRetried(r) \/ FetchFails(r)
       \/ ReadPage(r) \/ ReadWrongPage(r)
       \/ ReadPost(r) \/ ReadDirect(r) \/ ReadSite(r)
=============================================================================
