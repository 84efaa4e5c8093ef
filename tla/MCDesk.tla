------------------------------- MODULE MCDesk -------------------------------
(***************************************************************************)
(* The parts of the API that share no state with one another, each in a    *)
(* small instance: the run chooses one of them and leaves the others at    *)
(* their initial states.                                                   *)
(***************************************************************************)
EXTENDS AdminChat, BankToken, RateLimiter, Logins, Wallet, PushTokens, RowLocks, TLC

VARIABLE part

deskVars ==
  <<part, chatVars, tokenVars, limiterVars, loginVars, walletVars, pushVars, lockVars>>

DeskTypeOK ==
  /\ part = "chat" => ChatTypeOK
  /\ part = "token" => TokenTypeOK
  /\ part = "limiter" => LimiterTypeOK
  /\ part = "logins" => LoginTypeOK
  /\ part = "wallet" => WalletTypeOK
  /\ part = "push" => PushTypeOK
  /\ part = "locks" => LockTypeOK

\* The items of the orders matter to the locks only.
DeskInit ==
  /\ part \in {"chat", "token", "limiter", "logins", "wallet", "push", "locks"}
  /\ ChatInit /\ TokenInit /\ LimiterInit /\ LoginInit
  /\ WalletInit /\ PushInit /\ LockInit
  /\ part # "locks" => \A o \in Orders : itemsOf[o] = SetToSeq(TicketProducts)

DeskNext ==
  /\ UNCHANGED part
  /\ \/ part = "chat" /\ ChatNext /\ UNCHANGED <<tokenVars, limiterVars, loginVars, walletVars, pushVars, lockVars>>
     \/ part = "token" /\ TokenNext /\ UNCHANGED <<chatVars, limiterVars, loginVars, walletVars, pushVars, lockVars>>
     \/ part = "limiter" /\ LimiterNext /\ UNCHANGED <<chatVars, tokenVars, loginVars, walletVars, pushVars, lockVars>>
     \/ part = "logins" /\ LoginNext /\ UNCHANGED <<chatVars, tokenVars, limiterVars, walletVars, pushVars, lockVars>>
     \/ part = "wallet" /\ WalletNext /\ UNCHANGED <<chatVars, tokenVars, limiterVars, loginVars, pushVars, lockVars>>
     \/ part = "push" /\ PushNext /\ UNCHANGED <<chatVars, tokenVars, limiterVars, loginVars, walletVars, lockVars>>
     \/ part = "locks" /\ LockNext /\ UNCHANGED <<chatVars, tokenVars, limiterVars, loginVars, walletVars, pushVars>>

DeskSpec == DeskInit /\ [][DeskNext]_deskVars

\* One message at most comes from a user or from the panel: neither looks at a
\* target or at what the other has sent.
Bounded ==
  Cardinality({u \in 1..Len(message) : message[u].kind \in FromUser \cup {"panel"}}) <= 1

\* The two of each pair are interchangeable.  As the parts meet nowhere, one
\* permutation may exchange all pairs at once.
Exchange(S, b) == CHOOSE f \in Permutations(S) : \A x \in S : (f[x] # x) = b

Symmetry ==
  {Exchange(Users, b) @@ Exchange(Logons, b) @@ Exchange(Members, b)
     @@ Exchange(Transfers, b) @@ Exchange(Parties, b) @@ Exchange(Callers, b)
     @@ Exchange(Calls, b) @@ Exchange(Keys, b) @@ Exchange(PushKeys, b)
     @@ Exchange(Owners, b) @@ Exchange(Sessions, b) : b \in BOOLEAN}
=============================================================================
