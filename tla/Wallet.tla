------------------------------- MODULE Wallet -------------------------------
(***************************************************************************)
(* The tokens of a user: users.balance_tokens, the referral codes and the  *)
(* claims of the bonus (repository/referrals.go, handlers/referrals.go and *)
(* wallet.go), statement by statement.                                     *)
(*                                                                         *)
(* What a transaction has written is seen by nobody else until it commits, *)
(* so the tables here hold what is committed; the rows that an open        *)
(* transaction has locked follow from the step it has reached.             *)
(***************************************************************************)
EXTENDS Integers, FiniteSets

CONSTANTS
  Members,      \* the users
  Parties,      \* the events
  Transfers,    \* requests that may be under way at the same time
  Bonus,        \* referralBonusTokens, 100 in the code
  Amounts,      \* amounts a user may add
  MaxTopUps,    \* bound on top-ups
  MaxTries      \* referralCodeMaxRetries

ASSUME WalletAssumption ==
  /\ Bonus \in Nat \ {0}
  /\ Amounts \subseteq Nat
  /\ MaxTopUps \in Nat
  /\ MaxTries \in Nat \ {0}

VARIABLES
  balance,   \* users.balance_tokens
  codes,     \* referral_codes, by their owners
  party,     \* the state of each event
  claims,    \* referral_claims
  transfer,  \* the requests
  topUps,    \* history: what each user has added, and how often that was
  awards,    \* history: committed claims by inviter and invitee
  erased     \* history: claims of each invitee that went with their event

tables == <<balance, codes, party, claims>>
histories == <<topUps, awards, erased>>
walletVars == <<tables, transfer, histories>>

Claims == [invitee : Members, inviter : Members, party : Parties]
AtRest == [at |-> "rest"]

WalletTypeOK ==
  /\ balance \in [Members -> Nat]
  /\ codes \subseteq Members
  /\ party \in [Parties -> {"visible", "hidden", "deleted"}]
  /\ claims \subseteq Claims
  /\ \A r \in Transfers :
       \/ transfer[r] = AtRest
       \/ /\ transfer[r].at \in {"party", "code", "insert", "inviter", "invitee", "commit"}
          /\ transfer[r].claim \in Claims
       \/ /\ transfer[r].at \in {"topUp", "touch", "readCode", "insertCode", "rereadCode"}
          /\ transfer[r].who \in Members
  /\ topUps \in [total : [Members -> Nat], count : 0..MaxTopUps]
  /\ awards \in [Members \X Members -> Nat]
  /\ erased \in [Members -> Nat]

WalletInit ==
  /\ balance = [p \in Members |-> 0]
  /\ codes = {}
  /\ party = [e \in Parties |-> "visible"]
  /\ claims = {}
  /\ transfer = [r \in Transfers |-> AtRest]
  /\ topUps = [total |-> [p \in Members |-> 0], count |-> 0]
  /\ awards = [pair \in Members \X Members |-> 0]
  /\ erased = [p \in Members |-> 0]

Passes(r, next) == transfer' = [transfer EXCEPT ![r] = next]
Reaches(r, step) == Passes(r, [transfer[r] EXCEPT !.at = step])
Starts(r, next) ==
  /\ transfer[r] = AtRest
  /\ Passes(r, next)
  /\ UNCHANGED <<tables, histories>>

\* The claim whose row an open transaction has inserted, and the rows of users
\* it has updated.
Inserted(r) == transfer[r].at \in {"inviter", "invitee", "commit"}
Locked(r) ==
  CASE transfer[r].at = "invitee" -> {transfer[r].claim.inviter}
    [] transfer[r].at = "commit" -> {transfer[r].claim.inviter, transfer[r].claim.invitee}
    [] OTHER -> {}
Free(r, p) == \A other \in Transfers \ {r} : p \notin Locked(other)

(***************************************************************************)
(* ClaimReferral: one transaction.                                         *)
(***************************************************************************)
\* A request whose access token says isNew; the code is that of the inviter.
StartClaim(r, claim) == Starts(r, [at |-> "party", claim |-> claim])

CheckParty(r) ==
  /\ transfer[r].at = "party"
  /\ IF party[transfer[r].claim.party] = "visible" THEN Reaches(r, "code") ELSE Passes(r, AtRest)
  /\ UNCHANGED <<tables, histories>>

CheckCode(r) ==
  /\ transfer[r].at = "code"
  /\ LET claim == transfer[r].claim
     IN  IF claim.inviter \in codes /\ claim.inviter # claim.invitee
         THEN Reaches(r, "insert") ELSE Passes(r, AtRest)
  /\ UNCHANGED <<tables, histories>>

\* Mutant: asked before, and by a statement of its own.
NobodyInsertsUnlocked(r) == TRUE

\* The unique index on invitee_user_id: an insert waits for an open one.
NobodyInserts(r) ==
  \A other \in Transfers \ {r} :
    Inserted(other) => transfer[other].claim.invitee # transfer[r].claim.invitee

\* ON CONFLICT DO NOTHING ends the claim, and so does a missing event.
InsertClaim(r) ==
  /\ transfer[r].at = "insert"
  /\ NobodyInserts(r)
  /\ LET claim == transfer[r].claim
     IN  IF party[claim.party] = "deleted" \/ \E c \in claims : c.invitee = claim.invitee
         THEN Passes(r, AtRest) ELSE Reaches(r, "inviter")
  /\ UNCHANGED <<tables, histories>>

\* The two updates of balances, each when the row is free.
AddToInviter(r) ==
  /\ transfer[r].at = "inviter"
  /\ Free(r, transfer[r].claim.inviter)
  /\ Reaches(r, "invitee")
  /\ UNCHANGED <<tables, histories>>

AddToInvitee(r) ==
  /\ transfer[r].at = "invitee"
  /\ Free(r, transfer[r].claim.invitee)
  /\ Reaches(r, "commit")
  /\ UNCHANGED <<tables, histories>>

CommitClaim(r) ==
  /\ transfer[r].at = "commit"
  /\ LET claim == transfer[r].claim
     IN  /\ claims' = claims \cup {claim}
         /\ balance' = [p \in Members |->
              balance[p] + IF p \in {claim.inviter, claim.invitee} THEN Bonus ELSE 0]
         /\ awards' = [awards EXCEPT ![<<claim.inviter, claim.invitee>>] = @ + 1]
  /\ Passes(r, AtRest)
  /\ UNCHANGED <<codes, party, topUps, erased>>

(***************************************************************************)
(* The other requests.                                                     *)
(***************************************************************************)
TopupToken(r, p, amount) ==
  /\ topUps.count < MaxTopUps
  /\ Starts(r, [at |-> "topUp", who |-> p, amount |-> amount])

\* AddUserTokens
AddUserTokens(r) ==
  /\ transfer[r].at = "topUp"
  /\ Free(r, transfer[r].who)
  /\ topUps.count < MaxTopUps
  /\ LET p == transfer[r].who
         amount == transfer[r].amount
     IN  /\ balance' = [balance EXCEPT ![p] = @ + amount]
         /\ topUps' = [total |-> [topUps.total EXCEPT ![p] = @ + amount],
                       count |-> topUps.count + 1]
  /\ Passes(r, AtRest)
  /\ UNCHANGED <<codes, party, claims, awards, erased>>

\* Me and UpdateLocation write other columns of the same row.
StartTouch(r, p) == Starts(r, [at |-> "touch", who |-> p])

TouchUser(r) ==
  /\ transfer[r].at = "touch"
  /\ Free(r, transfer[r].who)
  /\ Passes(r, AtRest)
  /\ UNCHANGED <<tables, histories>>

\* GetOrCreateReferralCode
ReferralCode(r, p) == Starts(r, [at |-> "readCode", who |-> p, tries |-> 0])

ReadCode(r) ==
  /\ transfer[r].at \in {"readCode", "rereadCode"}
  /\ IF transfer[r].who \in codes THEN Passes(r, AtRest) ELSE Reaches(r, "insertCode")
  /\ UNCHANGED <<tables, histories>>

\* The code is new, the owner has one by now, or another owner has this one.
InsertCode(r) ==
  /\ transfer[r].at = "insertCode"
  /\ LET p == transfer[r].who
         tries == transfer[r].tries
     IN  \/ /\ p \in codes
            /\ Reaches(r, "rereadCode")
            /\ UNCHANGED codes
         \/ /\ p \notin codes
            /\ codes' = codes \cup {p}
            /\ Passes(r, AtRest)
         \/ /\ p \notin codes /\ codes # {}
            /\ Passes(r, IF tries + 1 < MaxTries THEN [transfer[r] EXCEPT !.tries = tries + 1]
                         ELSE AtRest)
            /\ UNCHANGED codes
  /\ UNCHANGED <<balance, party, claims, histories>>

\* A statement fails, the deadlock detector ends it, the request is given up or
\* the API stops: what is open is rolled back.
TransferFails(r) ==
  /\ transfer[r] # AtRest
  /\ Passes(r, AtRest)
  /\ UNCHANGED <<tables, histories>>

HideParty(e) ==
  /\ party[e] = "visible"
  /\ party' = [party EXCEPT ![e] = "hidden"]
  /\ UNCHANGED <<balance, codes, claims, transfer, histories>>

\* ON DELETE CASCADE; it waits for the claims that refer to the event.
DeleteParty(e) ==
  /\ party[e] # "deleted"
  /\ \A r \in Transfers : Inserted(r) => transfer[r].claim.party # e
  /\ party' = [party EXCEPT ![e] = "deleted"]
  /\ claims' = {c \in claims : c.party # e}
  /\ erased' = [p \in Members |->
       erased[p] + Cardinality({c \in claims : c.party = e /\ c.invitee = p})]
  /\ UNCHANGED <<balance, codes, transfer, topUps, awards>>

WalletNext ==
  \/ \E r \in Transfers :
       \/ \E claim \in Claims : StartClaim(r, claim)
       \/ CheckParty(r) \/ CheckCode(r) \/ InsertClaim(r)
       \/ AddToInviter(r) \/ AddToInvitee(r) \/ CommitClaim(r)
       \/ \E p \in Members :
            \/ \E amount \in Amounts : TopupToken(r, p, amount)
            \/ StartTouch(r, p) \/ ReferralCode(r, p)
       \/ AddUserTokens(r) \/ TouchUser(r) \/ ReadCode(r) \/ InsertCode(r)
       \/ TransferFails(r)
  \/ \E e \in Parties : HideParty(e) \/ DeleteParty(e)

WalletSpec == WalletInit /\ [][WalletNext]_walletVars

(***************************************************************************)
(* Properties.                                                             *)
(***************************************************************************)
\* The committed claims, those of a pair numbered.
Awards == UNION {{pair} \X (1..awards[pair]) : pair \in Members \X Members}

AwardsOf(p) == {x \in Awards : p \in {x[1][1], x[1][2]}}
InvitationsOf(p) == {x \in Awards : x[1][2] = p}

\* A balance is what its owner has added and a bonus for each claim committed on
\* either side, through claims that fail between the two updates, that meet on
\* the same rows, and that are erased later; and nobody is paid twice for having
\* come, however many claims run beside one another, but for each claim that was
\* erased with its event.
WalletExact ==
  \A p \in Members :
    /\ balance[p] = topUps.total[p] + Bonus * Cardinality(AwardsOf(p))
    /\ Cardinality(InvitationsOf(p)) <= 1 + erased[p]
=============================================================================
