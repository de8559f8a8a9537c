--------------------------- MODULE AuthFlowProofs ---------------------------
(***************************************************************************)
(* Proofs about AuthFlow.  The types, which bound the AuthorizationClients *)
(* and the polls, hold for every instance; that logins wait for each other *)
(* and are spaced holds for any number of threads if the                   *)
(* AuthorizationClient exists before them; that the keyring can be         *)
(* refreshed holds for one thread with every fault.                        *)
(***************************************************************************)
EXTENDS AuthFlow, FiniteSetTheorems, SequenceTheorems, TLAPS

-----------------------------------------------------------------------------
(* The inductive invariants.                                               *)

(* Which flows a thread can be in, and what it has by then.                *)
FlowAt(t) ==
    /\ pc[t] \in {"construct", "login", "browser", "stuck", "assign"} => mode = "pkce"
    /\ pc[t] \in {"post", "storeRefresh", "storeAccess", "deleteAccess", "deleteRefresh"} =>
            mode # "direct"
    /\ pc[t] \in {"device", "poll", "giveUpAccess", "giveUpRefresh"} => mode = "device"
    /\ pc[t] \in {"post", "deleteAccess", "deleteRefresh", "login"} /\ mode = "pkce" =>
            client # 0
    /\ pc[t] \in {"browser", "stuck"} => mine[t] # 0
    /\ pc[t] = "poll" => polled[t] < polls

Constructing == {t \in Thread : pc[t] = "construct"}

(* Only threads that found no AuthorizationClient make one.                *)
ClientsOK ==
    /\ instance = 0 => made = 0
    /\ client <= made /\ instance <= made
    /\ made + Cardinality(Constructing) <= Cardinality(Thread) + 1

Base == TypeOK /\ ClientsOK /\ \A t \in Thread : FlowAt(t)

(* With one AuthorizationClient: whoever logs in holds its lock; the cache *)
(* was filled by the last login, and is empty only when it was too old.    *)
LoginInv ==
    /\ mode = "pkce" => client = 1
    /\ \A t \in Thread : pc[t] # "construct"
    /\ \A t \in Thread : pc[t] \in {"browser", "stuck"} => mine[t] = 1 /\ lock[1] = t
    /\ \A t \in Thread : pc[t] = "browser" => cached[1] = NoCred
    /\ Len(logins) > 0 => cachedTs[1] = logins[Len(logins)]
    /\ Len(logins) > 0 /\ cached[1] = NoCred => cachedTs[1] + ttl < now
    /\ LoginsSpaced

(* With one thread and refresh tokens in every answer: the keyring's       *)
(* access token is gone when its refresh token is not the newest.          *)
Whole(c) == c.rt >= c.at /\ c.at <= issued /\ c.rt <= issued

KeyringAt(t) ==
    /\ pc[t] \in {"deleteRefresh", "giveUpRefresh", "giveUpAccess", "device", "poll",
                  "login", "browser", "stuck", "assign"} => keyring.at = 0
    /\ pc[t] = "assign" => Whole(arg[t]) /\ arg[t].at # 0
    /\ pc[t] = "storeRefresh" => creds.at # 0 /\ keyring.at <= creds.rt
    /\ pc[t] = "storeAccess" => /\ arg[t].at = creds.at /\ creds.at # 0
                                /\ keyring.rt >= creds.at /\ keyring.at <= keyring.rt

KeyringInv ==
    /\ KeyringRefreshable
    /\ keyring.at <= issued /\ keyring.rt <= issued
    /\ mode # "direct" => Whole(creds) /\ (creds.at = 0 => keyring.at = 0)
    /\ \A c \in Client : Whole(cached[c]) /\ (cached[c].at = 0 => cached[c] = NoCred)
    /\ \A t \in Thread : KeyringAt(t)

-----------------------------------------------------------------------------
(* The threads and the AuthorizationClients.                               *)

(* A step of t, which neither looks for an AuthorizationClient nor makes   *)
(* one.                                                                    *)
Plain(t) ==
    /\ TypeOK'
    /\ \E l \in PC \ {"construct"} : pc' = [pc EXCEPT ![t] = l]
    /\ pc[t] # "construct"
    /\ FlowAt(t)'
    /\ UNCHANGED <<mode, client, instance, made>>
    /\ \A u \in Thread \ {t} : polled'[u] = polled[u] /\ mine'[u] = mine[u]

LEMMA OthersFlow ==
    ASSUME Base, NEW t \in Thread, NEW l, pc' = [pc EXCEPT ![t] = l], FlowAt(t)',
           mode' = mode, client # 0 => client' # 0,
           \A u \in Thread \ {t} : polled'[u] = polled[u] /\ mine'[u] = mine[u]
    PROVE  \A u \in Thread : FlowAt(u)'
  <1> SUFFICES ASSUME NEW u \in Thread, u # t PROVE FlowAt(u)'
    OBVIOUS
  <1>1. pc'[u] = pc[u] /\ polled'[u] = polled[u] /\ mine'[u] = mine[u] /\ FlowAt(u)
    BY DEF Base, TypeOK
  <1> QED
    BY <1>1 DEF FlowAt

LEMMA PlainPreserves ==
    ASSUME Base, NEW t \in Thread, Plain(t)
    PROVE  Base'
  <1>1. PICK l \in PC \ {"construct"} : pc' = [pc EXCEPT ![t] = l]
    BY DEF Plain
  <1>2. \A u \in Thread : FlowAt(u)'
    BY <1>1, OthersFlow DEF Plain
  <1>3. Constructing' = Constructing
    BY <1>1 DEF Constructing, Plain, Base, TypeOK
  <1> QED
    BY <1>2, <1>3 DEF Plain, Base, ClientsOK

LEMMA FailFacts ==
    ASSUME Base, NEW t \in Thread, AttemptFails(t)
    PROVE  /\ \E l \in {"attach", "failed"} : pc' = [pc EXCEPT ![t] = l]
           /\ retries' \in [Thread -> Nat]
  <1>1. CASE MayRetry(t)
    <2>1. pc' = [pc EXCEPT ![t] = "attach"] /\ retries' = [retries EXCEPT ![t] = @ + 1]
      BY <1>1 DEF AttemptFails, Goto
    <2>2. retries' \in [Thread -> Nat]
      BY <2>1 DEF Base, TypeOK
    <2> QED
      BY <2>1, <2>2
  <1>2. CASE ~ MayRetry(t)
    <2>1. pc' = [pc EXCEPT ![t] = "failed"] /\ retries' = retries
      BY <1>2 DEF AttemptFails, Goto
    <2>2. retries' \in [Thread -> Nat]
      BY <2>1 DEF Base, TypeOK
    <2> QED
      BY <2>1, <2>2
  <1> QED
    BY <1>1, <1>2

(* An attempt fails and nothing but the keyring or a poll has changed.     *)
LEMMA FailPlain ==
    ASSUME Base, NEW t \in Thread, pc[t] # "construct", AttemptFails(t),
           keyring' \in Cred, polled' \in [Thread -> 0..polls],
           \A u \in Thread \ {t} : polled'[u] = polled[u],
           UNCHANGED <<creds, pkce, tok, arg, mine, idp, env>>
    PROVE  Plain(t)
  <1>1. PICK l \in {"attach", "failed"} : pc' = [pc EXCEPT ![t] = l]
    BY FailFacts
  <1>2. retries' \in [Thread -> Nat]
    BY FailFacts
  <1>3. l \in PC \ {"construct"}
    BY DEF PC, Refreshing
  <1>4. TypeOK'
    BY <1>1, <1>2, <1>3 DEF Base, TypeOK, pkce, idp, env
  <1>5. FlowAt(t)'
    BY <1>1 DEF Base, TypeOK, FlowAt
  <1> QED
    BY <1>1, <1>3, <1>4, <1>5 DEF Plain, pkce, env

LEMMA AnswerFacts ==
    ASSUME Base, NEW c \in Answers, Issue(c)
    PROVE  /\ c \in Cred /\ c # NoCred /\ c.at = issued + 1
           /\ AlwaysRefresh => c.rt = issued + 1
           /\ {c.rt} \ {0} \subseteq Grant
           /\ issued' = issued + 1 /\ issued' \in 0..MaxGrant
           /\ accepted' \subseteq Grant /\ expired' = expired
  <1>1. issued < MaxGrant /\ issued \in Nat /\ MaxGrant \in Nat
    BY AuthAssumption DEF Base, TypeOK, Issue
  <1>2. c = [at |-> c.at, rt |-> c.rt] /\ c.at = issued + 1 /\ c.rt \in {0, issued + 1}
    BY DEF Answers
  <1>3. AlwaysRefresh => c.rt = issued + 1
    BY DEF Answers
  <1>4. c \in Cred /\ {c.rt} \ {0} \subseteq Grant
    BY <1>1, <1>2 DEF Cred, Grant
  <1>5. c # NoCred
    BY <1>1, <1>2 DEF NoCred
  <1>6. /\ issued' = issued + 1 /\ issued' \in 0..MaxGrant
        /\ accepted' \subseteq Grant /\ expired' = expired
    BY <1>1, <1>2 DEF Issue, Grant, Base, TypeOK
  <1> QED
    BY <1>2, <1>3, <1>4, <1>5, <1>6

LEMMA CallPlain ==
    ASSUME Base, NEW t \in Thread, Call(t)
    PROVE  Plain(t)
  <1> USE DEF Base, TypeOK, FlowAt, Plain, At, Goto, auth, pkce, calls, idp, env, Cred
  <1>1. CASE Attach(t)
    BY <1>1 DEF Attach, PC, Refreshing
  <1>2. CASE CallAccepted(t)
    BY <1>2 DEF CallAccepted, PC, Refreshing
  <1>3. CASE CallRejected(t)
    BY <1>3 DEF CallRejected, PC, Refreshing
  <1>4. CASE RepeatRejected(t)
    BY <1>4, FailFacts DEF RepeatRejected, PC, Refreshing
  <1>5. CASE CallFails(t)
    BY <1>5, FailFacts DEF CallFails, PC, Refreshing
  <1> QED
    BY <1>1, <1>2, <1>3, <1>4, <1>5 DEF Call

LEMMA RefreshPlain ==
    ASSUME Base, NEW t \in Thread, Refresh(t), ~ InitClient(t), ~ ConstructClient(t)
    PROVE  Plain(t)
  <1> USE DEF Base, TypeOK, FlowAt, Plain, At, Goto, auth, pkce, calls, idp, env
  <1>1. CASE InitClientFails(t)
    BY <1>1, FailPlain DEF InitClientFails
  <1>2. CASE RefreshStarts(t)
    BY <1>2 DEF RefreshStarts, PC, Refreshing
  <1>3. CASE RefreshGranted(t)
    <2>1. PICK c \in Answers :
            /\ Issue(c) /\ creds' = c
            /\ fresh' = (IF Rotates THEN fresh \ {arg[t].rt} ELSE fresh) \cup ({c.rt} \ {0})
      BY <1>3 DEF RefreshGranted
    <2>2. creds' \in Cred /\ issued' \in 0..MaxGrant /\ accepted' \subseteq Grant
          /\ expired' = expired /\ fresh' \subseteq Grant
      BY <2>1, AnswerFacts
    <2> QED
      BY <1>3, <2>2 DEF RefreshGranted, PC, Refreshing
  <1>4. CASE RefreshRefused(t)
    BY <1>4 DEF RefreshRefused, PC, Refreshing
  <1>5. CASE RefreshRaises(t)
    BY <1>5, FailFacts DEF RefreshRaises, PC, Refreshing
  <1>6. CASE StoreRefresh(t)
    <2>1. keyring' \in Cred
      BY <1>6 DEF StoreRefresh, Cred
    <2> QED
      BY <1>6, <2>1 DEF StoreRefresh, PC, Refreshing
  <1>7. CASE StoreAccess(t)
    <2>1. keyring' \in Cred
      BY <1>7 DEF StoreAccess, Cred
    <2> QED
      BY <1>7, <2>1 DEF StoreAccess, PC, Refreshing
  <1>8. CASE DeleteAccess(t)
    <2>1. keyring' \in Cred
      BY <1>8, AuthAssumption DEF DeleteAccess, Cred
    <2> QED
      BY <1>8, <2>1 DEF DeleteAccess, PC, Refreshing
  <1>9. CASE DeleteRefresh(t)
    <2>1. keyring' \in Cred
      BY <1>9, AuthAssumption DEF DeleteRefresh, Cred
    <2>2. CASE AttemptFails(t) /\ At(t, "giveUpRefresh")
      BY <1>9, <2>1, <2>2, FailPlain DEF DeleteRefresh
    <2>3. CASE /\ At(t, "deleteRefresh") /\ UNCHANGED retries
               /\ Goto(t, IF mode = "device" THEN "device" ELSE "login")
      <3>1. PICK l \in {"device", "login"} :
                pc' = [pc EXCEPT ![t] = l] /\ l = IF mode = "device" THEN "device" ELSE "login"
        BY <2>3
      <3>2. l \in PC \ {"construct"}
        BY DEF PC, Refreshing
      <3>3. mode \in {"pkce", "device"} /\ (mode = "pkce" => client # 0)
        BY <2>3, AuthAssumption
      <3> QED
        BY <1>9, <2>1, <2>3, <3>1, <3>2, <3>3 DEF DeleteRefresh
    <2> QED
      BY <1>9, <2>2, <2>3 DEF DeleteRefresh
  <1> QED
    BY <1>1, <1>2, <1>3, <1>4, <1>5, <1>6, <1>7, <1>8, <1>9 DEF Refresh

LEMMA LoginPlain ==
    ASSUME Base, NEW t \in Thread, Login(t)
    PROVE  Plain(t)
  <1> USE DEF Base, TypeOK, FlowAt, Plain, At, Goto, auth, pkce, calls, idp, env
  <1>1. CASE LoginFromCache(t)
    <2>1. client \in Client
      BY <1>1 DEF LoginFromCache
    <2> QED
      BY <1>1, <2>1 DEF LoginFromCache, PC, Refreshing
  <1>2. CASE LoginInBrowser(t)
    <2>1. client # 0 /\ NoCred \in Cred
      BY <1>2, AuthAssumption DEF LoginInBrowser, Cred, NoCred
    <2> QED
      BY <1>2, <2>1 DEF LoginInBrowser, PC, Refreshing
  <1>3. CASE LoginPortTaken(t)
    <2>1. NoCred \in Cred
      BY AuthAssumption DEF Cred, NoCred
    <2> QED
      BY <1>3, <2>1, FailFacts DEF LoginPortTaken, PC, Refreshing
  <1>4. CASE LoginCompletes(t)
    <2>1. PICK c \in Answers :
            /\ Issue(c) /\ cached' = [cached EXCEPT ![mine[t]] = c]
            /\ arg' = [arg EXCEPT ![t] = c] /\ fresh' = fresh \cup ({c.rt} \ {0})
      BY <1>4 DEF LoginCompletes
    <2>2. /\ cached' \in [Client -> Cred] /\ arg' \in [Thread -> Cred]
          /\ issued' \in 0..MaxGrant /\ accepted' \subseteq Grant
          /\ expired' = expired /\ fresh' \subseteq Grant
      BY <2>1, AnswerFacts
    <2>3. logins' \in Seq(0..MaxTime)
      BY <1>4, AppendProperties DEF LoginCompletes
    <2> QED
      BY <1>4, <2>2, <2>3 DEF LoginCompletes, PC, Refreshing
  <1>5. CASE LoginRefused(t)
    BY <1>5, FailFacts DEF LoginRefused, PC, Refreshing
  <1>6. CASE LoginStray(t)
    BY <1>6 DEF LoginStray, PC, Refreshing
  <1>7. CASE Assign(t)
    BY <1>7 DEF Assign, PC, Refreshing
  <1> QED
    BY <1>1, <1>2, <1>3, <1>4, <1>5, <1>6, <1>7 DEF Login

LEMMA OtherFlowsPlain ==
    ASSUME Base, NEW t \in Thread, OtherFlows(t)
    PROVE  Plain(t)
  <1> USE DEF Base, TypeOK, FlowAt, Plain, At, Goto, auth, pkce, calls, idp, env
  <1>1. CASE DeviceCode(t)
    <2>1. polled' = [polled EXCEPT ![t] = 0] /\ polled' \in [Thread -> 0..polls]
      BY <1>1, AuthAssumption DEF DeviceCode
    <2>2. CASE AttemptFails(t)
      BY <1>1, <2>1, <2>2, FailPlain DEF DeviceCode
    <2>3. CASE Goto(t, "poll") /\ UNCHANGED retries
      <3>1. mode = "device" /\ polled'[t] < polls
        BY <1>1, <2>1, AuthAssumption DEF DeviceCode
      <3> QED
        BY <1>1, <2>1, <2>3, <3>1 DEF DeviceCode, PC, Refreshing
    <2> QED
      BY <1>1, <2>2, <2>3 DEF DeviceCode
  <1>2. CASE PollGranted(t)
    <2>1. PICK c \in Answers :
            Issue(c) /\ creds' = c /\ fresh' = fresh \cup ({c.rt} \ {0})
      BY <1>2 DEF PollGranted
    <2>2. creds' \in Cred /\ issued' \in 0..MaxGrant /\ accepted' \subseteq Grant
          /\ expired' = expired /\ fresh' \subseteq Grant
      BY <2>1, AnswerFacts
    <2> QED
      BY <1>2, <2>2 DEF PollGranted, PC, Refreshing
  <1>3. CASE PollPending(t)
    <2>1. /\ polled[t] \in Nat /\ polled[t] < polls /\ polls \in Nat /\ mode = "device"
          /\ polled' = [polled EXCEPT ![t] = @ + 1]
      BY <1>3, AuthAssumption DEF PollPending
    <2>2. polled' \in [Thread -> 0..polls] /\ polled'[t] = polled[t] + 1
      BY <2>1
    <2> QED
      BY <1>3, <2>1, <2>2 DEF PollPending, PC, Refreshing
  <1>4. CASE PollRefused(t)
    BY <1>4 DEF PollRefused, PC, Refreshing
  <1>5. CASE DirectGranted(t)
    <2>1. creds' \in Cred /\ issued' \in 0..MaxGrant /\ accepted' \subseteq Grant
          /\ expired' = expired
      <3>1. issued < MaxGrant /\ issued \in Nat /\ MaxGrant \in Nat
        BY <1>5, AuthAssumption DEF DirectGranted, Issue
      <3>2. /\ creds' = [at |-> issued + 1, rt |-> 0] /\ issued' = issued + 1
            /\ accepted' = accepted \cup {issued + 1} /\ expired' = expired
        BY <1>5 DEF DirectGranted, Issue
      <3>3. creds' \in Cred /\ issued' \in 0..MaxGrant
        BY <3>1, <3>2 DEF Cred
      <3>4. accepted' \subseteq Grant
        BY <3>1, <3>2 DEF Grant
      <3> QED
        BY <3>2, <3>3, <3>4
    <2> QED
      BY <1>5, <2>1 DEF DirectGranted, PC, Refreshing
  <1>6. CASE DirectRefused(t)
    BY <1>6, FailPlain DEF DirectRefused
  <1> QED
    BY <1>1, <1>2, <1>3, <1>4, <1>5, <1>6 DEF OtherFlows

LEMMA CardinalityFacts ==
    /\ Cardinality(Thread) \in Nat
    /\ \A S \in SUBSET Thread : /\ IsFiniteSet(S) /\ Cardinality(S) \in Nat
                                 /\ Cardinality(S) <= Cardinality(Thread)
  BY AuthAssumption, FS_CardinalityType, FS_Subset

(* A thread that finds no AuthorizationClient is one of at most all.       *)
LEMMA InitClientStep ==
    ASSUME Base, NEW t \in Thread, InitClient(t)
    PROVE  Base'
  <1>1. /\ pc[t] = "refresh" /\ mode = "pkce" /\ client = 0
        /\ UNCHANGED <<creds, keyring, instance, made, cached, cachedTs, lock, tok, arg, retries,
                       polled, mine, issued, accepted, fresh, expired, now, logins, restarts, mode>>
    BY DEF InitClient, At, calls, idp, env
  <1>2. CASE instance = 0 /\ pc' = [pc EXCEPT ![t] = "construct"] /\ UNCHANGED client
    <2>1. TypeOK'
      BY <1>1, <1>2 DEF Base, TypeOK, PC, Refreshing
    <2>2. FlowAt(t)'
      BY <1>1, <1>2 DEF Base, TypeOK, FlowAt
    <2>3. \A u \in Thread : FlowAt(u)'
      BY <1>1, <1>2, <2>2, OthersFlow
    <2>4. Constructing' \in SUBSET Thread /\ made = 0
      BY <1>2 DEF Constructing, Base, ClientsOK
    <2>5. ClientsOK'
      BY <1>1, <1>2, <2>4, CardinalityFacts DEF Base, ClientsOK
    <2> QED
      BY <2>1, <2>3, <2>5 DEF Base
  <1>3. CASE instance # 0 /\ client' = instance /\ UNCHANGED pc
    <2>1. TypeOK'
      BY <1>1, <1>3 DEF Base, TypeOK
    <2>2. \A u \in Thread : FlowAt(u)'
      BY <1>1, <1>3 DEF Base, FlowAt
    <2>3. ClientsOK'
      BY <1>1, <1>3 DEF Base, ClientsOK, Constructing
    <2> QED
      BY <2>1, <2>2, <2>3 DEF Base
  <1> QED
    BY <1>2, <1>3 DEF InitClient, Goto

(* Each of them makes one, and is then done with it.                       *)
LEMMA ConstructClientStep ==
    ASSUME Base, NEW t \in Thread, ConstructClient(t)
    PROVE  Base'
  <1>1. /\ pc[t] = "construct" /\ pc' = [pc EXCEPT ![t] = "refresh"]
        /\ made' = made + 1 /\ instance' = made' /\ client' = made'
        /\ UNCHANGED <<creds, keyring, cached, cachedTs, lock, tok, arg, retries,
                       polled, mine, issued, accepted, fresh, expired, now, logins, restarts, mode>>
    BY DEF ConstructClient, At, Goto, calls, idp, env
  <1>2. Constructing' = Constructing \ {t} /\ t \in Constructing
    BY <1>1 DEF Constructing, Base, TypeOK
  <1>3. IsFiniteSet(Constructing) /\ Cardinality(Constructing) \in Nat
    BY CardinalityFacts DEF Constructing
  <1>4. Cardinality(Constructing') = Cardinality(Constructing) - 1
    BY <1>2, <1>3, FS_RemoveElement
  <1>5. made \in Nat /\ Cardinality(Thread) \in Nat
    BY CardinalityFacts DEF Base, TypeOK, Client
  <1>6. made + 1 <= Cardinality(Thread) + 1
    <2>1. Constructing # {} => Cardinality(Constructing) # 0
      BY <1>3, FS_EmptySet
    <2> QED
      BY <1>2, <1>3, <1>5, <2>1 DEF Base, ClientsOK
  <1>7. ClientsOK'
    BY <1>1, <1>3, <1>4, <1>5 DEF Base, ClientsOK
  <1>8. TypeOK'
    <2>1. {client, instance, made}' \subseteq (Client \cup {0})'
      BY <1>1, <1>5, <1>6 DEF Client
    <2>2. "refresh" \in PC
      BY DEF PC, Refreshing
    <2> QED
      BY <1>1, <2>1, <2>2 DEF Base, TypeOK
  <1>9. FlowAt(t)'
    BY <1>1 DEF Base, TypeOK, FlowAt
  <1>10. \A u \in Thread : FlowAt(u)'
    <2>1. client' # 0
      BY <1>1, <1>5
    <2>2. \A u \in Thread \ {t} : polled'[u] = polled[u] /\ mine'[u] = mine[u]
      BY <1>1
    <2> QED
      BY <1>1, <1>9, <2>1, <2>2, OthersFlow
  <1> QED
    BY <1>7, <1>8, <1>10 DEF Base

LEMMA InitBase == Init => Base
  <1> SUFFICES ASSUME Init PROVE Base
    OBVIOUS
  <1>1. /\ Cardinality(Thread) \in Nat /\ MaxGrant \in Nat \ {0}
        /\ polls \in Nat \ {0} /\ MaxTime \in Nat
    BY CardinalityFacts, AuthAssumption
  <1>2. NoCred \in Cred /\ keyring \in Cred /\ creds \in Cred
    BY <1>1 DEF Init, NoCred, Cred, Retrieved
  <1>3. {client, instance, made} \subseteq Client \cup {0}
    BY <1>1 DEF Init, Client
  <1>4. /\ cached \in [Client -> Cred] /\ cachedTs \in [Client -> 0..MaxTime]
        /\ lock \in [Client -> Thread \cup {NoThread}] /\ mine \in [Thread -> Client \cup {0}]
        /\ tok \in [Thread -> 0..MaxGrant] /\ arg \in [Thread -> Cred]
        /\ retries \in [Thread -> Nat] /\ polled \in [Thread -> 0..polls]
    BY <1>1, <1>2 DEF Init
  <1>5. pc \in [Thread -> PC]
    BY DEF Init, PC
  <1>6. /\ issued \in 0..MaxGrant /\ accepted \subseteq Grant /\ fresh \subseteq Grant
        /\ expired \in 0..MaxExpired /\ now \in 0..MaxTime /\ restarts \in 0..MaxRestarts
    BY <1>1, AuthAssumption DEF Init, Grant
  <1>7. logins \in Seq(0..MaxTime)
    BY EmptySeq DEF Init
  <1>8. TypeOK
    BY <1>2, <1>3, <1>4, <1>5, <1>6, <1>7 DEF TypeOK, Init
  <1>9. ClientsOK
    <2>1. Constructing = {}
      BY DEF Constructing, Init
    <2> QED
      BY <1>1, <2>1, FS_EmptySet DEF ClientsOK, Init
  <1>10. \A t \in Thread : FlowAt(t)
    BY DEF FlowAt, Init
  <1> QED
    BY <1>8, <1>9, <1>10 DEF Base

LEMMA RestartBase ==
    ASSUME Base, Restart
    PROVE  Base'
  <1>1. /\ Cardinality(Thread) \in Nat /\ MaxGrant \in Nat \ {0}
        /\ polls \in Nat \ {0} /\ MaxTime \in Nat
    BY CardinalityFacts, AuthAssumption
  <1>2. NoCred \in Cred /\ keyring' \in Cred /\ creds' \in Cred
    BY <1>1 DEF Restart, NoCred, Cred, Retrieved, Base, TypeOK
  <1>3. /\ cached' \in [Client -> Cred] /\ cachedTs' \in [Client -> 0..MaxTime]
        /\ lock' \in [Client -> Thread \cup {NoThread}] /\ mine' \in [Thread -> Client \cup {0}]
        /\ tok' \in [Thread -> 0..MaxGrant] /\ arg' \in [Thread -> Cred]
        /\ retries' \in [Thread -> Nat] /\ polled' \in [Thread -> 0..polls]
    BY <1>1, <1>2 DEF Restart
  <1>4. pc' \in [Thread -> PC] /\ \A t \in Thread : pc'[t] = "attach"
    BY DEF Restart, PC
  <1>5. restarts' \in 0..MaxRestarts
    BY AuthAssumption DEF Restart, Base, TypeOK
  <1>6. logins' \in Seq(0..MaxTime)
    BY EmptySeq DEF Restart
  <1>7. TypeOK'
    BY <1>2, <1>3, <1>4, <1>5, <1>6 DEF TypeOK, Restart, Base, idp
  <1>8. ClientsOK'
    <2>1. Constructing' = {}
      BY <1>4 DEF Constructing
    <2> QED
      BY <1>1, <2>1, FS_EmptySet DEF ClientsOK, Restart
  <1>9. \A t \in Thread : FlowAt(t)'
    BY <1>4 DEF FlowAt
  <1> QED
    BY <1>7, <1>8, <1>9 DEF Base

LEMMA StepBase ==
    ASSUME Base, NEW t \in Thread, Step(t)
    PROVE  Base' /\ (Plain(t) \/ InitClient(t) \/ ConstructClient(t))
  <1>1. CASE InitClient(t)
    BY <1>1, InitClientStep
  <1>2. CASE ConstructClient(t)
    BY <1>2, ConstructClientStep
  <1>3. CASE ~ InitClient(t) /\ ~ ConstructClient(t)
    BY <1>3, CallPlain, RefreshPlain, LoginPlain, OtherFlowsPlain, PlainPreserves DEF Step
  <1> QED
    BY <1>1, <1>2, <1>3

(* The environment leaves the threads alone.                               *)
LEMMA EnvironmentBase ==
    ASSUME Base, (\E g \in Grant : Expire(g)) \/ Tick \/ UNCHANGED vars
    PROVE  /\ Base'
           /\ UNCHANGED <<creds, keyring, client, cached, cachedTs, lock, pc, arg, mine, issued,
                          logins, mode>>
           /\ now' \in {now, now + 1}
  <1>1. UNCHANGED <<auth, pc, calls, issued, fresh, logins, restarts, mode>>
    BY DEF Expire, Tick, vars, idp, env
  <1>2. /\ expired' \in 0..MaxExpired /\ accepted' \subseteq Grant /\ now' \in 0..MaxTime
        /\ now' \in {now, now + 1}
    BY AuthAssumption DEF Expire, Tick, vars, idp, env, Base, TypeOK
  <1>3. UNCHANGED <<creds, keyring, client, instance, made, cached, cachedTs, lock, pc, tok, arg,
                    retries, polled, mine, issued, fresh, logins, restarts, mode>>
    BY <1>1 DEF auth, pkce, calls
  <1>4. TypeOK'
    BY <1>2, <1>3 DEF Base, TypeOK
  <1>5. ClientsOK' /\ \A t \in Thread : FlowAt(t)'
    BY <1>3 DEF Base, ClientsOK, Constructing, FlowAt
  <1> QED
    BY <1>2, <1>3, <1>4, <1>5 DEF Base

LEMMA BaseInvariant == Spec => []Base
  <1>1. Base /\ [Next]_vars => Base'
    BY StepBase, EnvironmentBase, RestartBase DEF Next
  <1> QED
    BY <1>1, InitBase, PTL DEF Spec

(* Every variable keeps its type.  In particular a device flow polls no    *)
(* more often than the code is valid for, and no more AuthorizationClients *)
(* come into being than threads can make, plus one: __call__ of            *)
(* _SingletonPerEndpoint looks and constructs in two steps, but each       *)
(* thread goes through them once.                                          *)
THEOREM TypeCorrect == Spec => []TypeOK
  BY BaseInvariant, PTL DEF Base

-----------------------------------------------------------------------------
(* Logins, when there is an AuthorizationClient from the start.            *)

(* The steps that neither start nor end a login.                           *)
Quiet(t) ==
    /\ UNCHANGED <<cached, cachedTs, lock, logins, now>>
    /\ pc[t] \notin {"browser", "stuck"} /\ pc'[t] \notin {"browser", "stuck"}

LEMMA QuietSteps ==
    ASSUME Base, NEW t \in Thread, ~ InitClient(t), ~ ConstructClient(t),
           \/ Call(t) \/ Refresh(t) \/ OtherFlows(t) \/ LoginFromCache(t) \/ Assign(t)
    PROVE  Quiet(t)
  <1> USE DEF Quiet, At, Goto, auth, pkce, env
  <1>1. pc \in [Thread -> PC]
    BY DEF Base, TypeOK
  <1>2. CASE Call(t)
    BY <1>1, <1>2, FailFacts DEF Call, Attach, CallAccepted, CallRejected, RepeatRejected, CallFails
  <1>3. CASE Refresh(t)
    <2>1. CASE InitClientFails(t) \/ RefreshRaises(t) \/ DeleteRefresh(t)
      BY <1>1, <2>1, FailFacts DEF InitClientFails, RefreshRaises, DeleteRefresh
    <2>2. CASE RefreshStarts(t) \/ RefreshGranted(t) \/ RefreshRefused(t)
      BY <1>1, <2>2 DEF RefreshStarts, RefreshGranted, RefreshRefused
    <2>3. CASE StoreRefresh(t) \/ StoreAccess(t) \/ DeleteAccess(t)
      BY <1>1, <2>3 DEF StoreRefresh, StoreAccess, DeleteAccess
    <2> QED
      BY <1>3, <2>1, <2>2, <2>3 DEF Refresh
  <1>4. CASE OtherFlows(t)
    <2>1. CASE DeviceCode(t) \/ DirectRefused(t)
      BY <1>1, <2>1, FailFacts DEF DeviceCode, DirectRefused
    <2>2. CASE PollGranted(t) \/ PollPending(t) \/ PollRefused(t) \/ DirectGranted(t)
      BY <1>1, <2>2 DEF PollGranted, PollPending, PollRefused, DirectGranted
    <2> QED
      BY <1>4, <2>1, <2>2 DEF OtherFlows
  <1>5. CASE LoginFromCache(t) \/ Assign(t)
    BY <1>1, <1>5 DEF LoginFromCache, Assign
  <1> QED
    BY <1>2, <1>3, <1>4, <1>5

LEMMA QuietLogin ==
    ASSUME Base, LoginInv, NEW t \in Thread, Plain(t), Quiet(t)
    PROVE  LoginInv'
  <1>1. PICK l \in PC \ {"construct"} : pc' = [pc EXCEPT ![t] = l]
    BY DEF Plain
  <1>2. \A u \in Thread : pc'[u] \in {"browser", "stuck"} =>
            u # t /\ pc'[u] = pc[u] /\ mine'[u] = mine[u]
    BY <1>1 DEF Plain, Quiet, Base, TypeOK
  <1>3. \A u \in Thread : pc'[u] # "construct"
    BY <1>1 DEF LoginInv, Base, TypeOK
  <1>4. UNCHANGED <<mode, client, cached, cachedTs, lock, logins, now>>
    BY DEF Plain, Quiet
  <1> QED
    BY <1>2, <1>3, <1>4 DEF LoginInv, LoginsSpaced

(* A thread that starts a login has the lock to itself: nobody else logs   *)
(* in, with the server open or already closed.                             *)
LEMMA FreeLock ==
    ASSUME Base, LoginInv, lock[1] = NoThread
    PROVE  \A u \in Thread : pc[u] \notin {"browser", "stuck"}
  BY AuthAssumption DEF LoginInv, NoThread

LEMMA ClientIsOne ==
    ASSUME Base, LoginInv, NEW t \in Thread, pc[t] \in {"login", "browser", "stuck"}
    PROVE  client = 1 /\ 1 \in Client /\ mode = "pkce"
  <1>1. mode = "pkce" /\ client = 1
    BY DEF Base, FlowAt, LoginInv
  <1>2. client \in Client \cup {0}
    BY DEF Base, TypeOK
  <1> QED
    BY <1>1, <1>2

(* Once the cache is found unusable it is emptied, and then the last login *)
(* is longer ago than cache_ttl_s.                                         *)
LEMMA Unusable ==
    ASSUME Base, LoginInv, ~CacheIsUsable(1), Len(logins) > 0
    PROVE  cachedTs[1] + ttl < now
  BY DEF LoginInv, CacheIsUsable

LEMMA LoginInBrowserStep ==
    ASSUME Base, LoginInv, NEW t \in Thread, LoginInBrowser(t)
    PROVE  LoginInv'
  <1>1. client = 1 /\ 1 \in Client
    BY ClientIsOne DEF LoginInBrowser, At
  <1>2. /\ pc' = [pc EXCEPT ![t] = "browser"] /\ mine' = [mine EXCEPT ![t] = 1]
        /\ lock' = [lock EXCEPT ![1] = t] /\ cached' = [cached EXCEPT ![1] = NoCred]
        /\ lock[1] = NoThread /\ ~CacheIsUsable(1)
        /\ UNCHANGED <<mode, client, cachedTs, logins, now>>
    BY <1>1 DEF LoginInBrowser, Goto, env
  <1>3. \A u \in Thread : pc[u] \notin {"browser", "stuck"}
    BY <1>2, FreeLock
  <1>4. lock'[1] = t /\ cached'[1] = NoCred /\ mine'[t] = 1
    BY <1>1, <1>2 DEF Base, TypeOK
  <1>5. \A u \in Thread : /\ pc'[u] \in {"browser", "stuck"} => u = t
                          /\ pc'[u] # "construct"
    BY <1>2, <1>3 DEF LoginInv, Base, TypeOK
  <1>6. Len(logins) > 0 => cachedTs[1] + ttl < now
    BY <1>2, Unusable
  <1> QED
    BY <1>2, <1>4, <1>5, <1>6 DEF LoginInv, LoginsSpaced

LEMMA LoginPortTakenStep ==
    ASSUME Base, LoginInv, NEW t \in Thread, LoginPortTaken(t)
    PROVE  LoginInv'
  <1>1. client = 1 /\ 1 \in Client
    BY ClientIsOne DEF LoginPortTaken, At
  <1>2. /\ cached' = [cached EXCEPT ![1] = NoCred]
        /\ lock[1] = NoThread /\ ~CacheIsUsable(1)
        /\ UNCHANGED <<mode, client, cachedTs, lock, logins, now, mine>>
    BY <1>1 DEF LoginPortTaken, env
  <1>3. PICK l \in {"attach", "failed"} : pc' = [pc EXCEPT ![t] = l]
    BY FailFacts DEF LoginPortTaken
  <1>4. cached'[1] = NoCred
    BY <1>1, <1>2 DEF Base, TypeOK
  <1>5. \A u \in Thread : pc'[u] \notin {"browser", "stuck", "construct"}
    BY <1>2, <1>3, FreeLock DEF LoginInv, Base, TypeOK
  <1>6. Len(logins) > 0 => cachedTs[1] + ttl < now
    BY <1>2, Unusable
  <1> QED
    BY <1>2, <1>4, <1>5, <1>6 DEF LoginInv, LoginsSpaced

LEMMA LoginCompletesStep ==
    ASSUME Base, LoginInv, NEW t \in Thread, LoginCompletes(t)
    PROVE  LoginInv'
  <1>1. /\ client = 1 /\ 1 \in Client /\ pc[t] = "browser"
        /\ mine[t] = 1 /\ lock[1] = t /\ cached[1] = NoCred
    BY ClientIsOne DEF LoginCompletes, At, LoginInv
  <1>2. PICK c \in Answers : Issue(c) /\ cached' = [cached EXCEPT ![1] = c]
    BY <1>1 DEF LoginCompletes
  <1>3. /\ cachedTs' = [cachedTs EXCEPT ![1] = now] /\ logins' = Append(logins, now)
        /\ pc' = [pc EXCEPT ![t] = "assign"]
        /\ UNCHANGED <<mode, client, now>>
    BY <1>1 DEF LoginCompletes, Goto
  <1>4. cached'[1] # NoCred /\ cachedTs'[1] = now
    BY <1>1, <1>2, <1>3, AnswerFacts DEF Base, TypeOK
  <1>5. \A u \in Thread : pc'[u] \notin {"browser", "stuck", "construct"}
    BY <1>1, <1>3 DEF LoginInv, Base, TypeOK
  <1>6. /\ logins \in Seq(0..MaxTime) /\ Len(logins) \in Nat
        /\ Len(logins') = Len(logins) + 1 /\ logins'[Len(logins) + 1] = now
        /\ \A i \in 1..Len(logins) : logins'[i] = logins[i]
    BY <1>3, AppendProperties, LenProperties DEF Base, TypeOK
  <1>7. LoginsSpaced'
    <2> SUFFICES ASSUME NEW i \in 1..(Len(logins') - 1)
                 PROVE  logins'[i] + ttl < logins'[i + 1]
      BY DEF LoginsSpaced
    <2>1. CASE i = Len(logins)
      BY <1>1, <1>6, <2>1 DEF LoginInv
    <2>2. CASE i # Len(logins)
      BY <1>6, <2>2 DEF LoginInv, LoginsSpaced
    <2> QED
      BY <2>1, <2>2
  <1> QED
    BY <1>3, <1>4, <1>5, <1>6, <1>7 DEF LoginInv

(* A login that ends without credentials.                                  *)
LEMMA LoginEndsStep ==
    ASSUME Base, LoginInv, NEW t \in Thread, LoginRefused(t) \/ LoginStray(t)
    PROVE  LoginInv'
  <1>1. /\ client = 1 /\ 1 \in Client /\ pc[t] = "browser" /\ mine[t] = 1 /\ lock[1] = t
    BY ClientIsOne DEF LoginRefused, LoginStray, At, LoginInv
  <1>2. UNCHANGED <<mode, client, cached, cachedTs, logins, now, mine>>
    BY DEF LoginRefused, LoginStray, auth, pkce, calls, env
  <1>3. \A u \in Thread : u # t => pc[u] \notin {"browser", "stuck"}
    BY <1>1 DEF LoginInv
  <1>4. CASE LoginRefused(t)
    <2>1. PICK l \in {"attach", "failed"} : pc' = [pc EXCEPT ![t] = l]
      BY <1>4, FailFacts DEF LoginRefused
    <2>2. \A u \in Thread : pc'[u] \notin {"browser", "stuck", "construct"}
      BY <1>3, <2>1 DEF LoginInv, Base, TypeOK
    <2> QED
      BY <1>2, <2>2 DEF LoginInv, LoginsSpaced
  <1>5. CASE LoginStray(t)
    <2>1. pc' = [pc EXCEPT ![t] = "stuck"] /\ lock' = lock
      BY <1>5 DEF LoginStray, Goto, auth, pkce
    <2>2. \A u \in Thread : /\ pc'[u] \in {"browser", "stuck"} => u = t
                            /\ pc'[u] \notin {"browser", "construct"}
      BY <1>3, <2>1 DEF LoginInv, Base, TypeOK
    <2> QED
      BY <1>1, <1>2, <2>1, <2>2 DEF LoginInv, LoginsSpaced
  <1> QED
    BY <1>4, <1>5

LEMMA LoginStep ==
    ASSUME Base, LoginInv, NEW t \in Thread, Step(t)
    PROVE  LoginInv'
  <1>1. ~ InitClient(t) /\ ~ ConstructClient(t)
    BY DEF LoginInv, InitClient, ConstructClient, At
  <1>2. Plain(t)
    BY <1>1, StepBase
  <1>3. CASE \/ Call(t) \/ Refresh(t) \/ OtherFlows(t) \/ LoginFromCache(t) \/ Assign(t)
    BY <1>1, <1>2, <1>3, QuietSteps, QuietLogin
  <1> QED
    BY <1>3, LoginInBrowserStep, LoginPortTakenStep, LoginCompletesStep, LoginEndsStep
       DEF Step, Login

LEMMA TickLogin ==
    ASSUME Base, LoginInv, (\E g \in Grant : Expire(g)) \/ Tick \/ UNCHANGED vars
    PROVE  LoginInv'
  <1>1. /\ UNCHANGED <<client, cached, cachedTs, lock, pc, mine, logins, mode>>
        /\ now' \in {now, now + 1}
    BY EnvironmentBase
  <1>2. now \in Nat /\ (Len(logins) > 0 => cachedTs[1] \in Nat) /\ ttl \in Nat
    BY AuthAssumption, CardinalityFacts DEF Base, TypeOK, Client
  <1> QED
    BY <1>1, <1>2 DEF LoginInv, LoginsSpaced

LEMMA LoginInvariant ==
    ASSUME Prepared, "crash" \notin Faults
    PROVE  Spec => []LoginInv
  <1>1. Init => LoginInv
    BY DEF Init, LoginInv, LoginsSpaced
  <1>2. Base /\ LoginInv /\ [Next]_vars => LoginInv'
    BY LoginStep, TickLogin DEF Next, Restart
  <1> QED
    BY <1>1, <1>2, BaseInvariant, PTL DEF Spec

(* However many threads need a login: while one waits for the browser, the *)
(* others wait for its lock (get_creds_from_remote, auth_client.py         *)
(* 341-391), and none fails because the port is bound; provided they share *)
(* one AuthorizationClient, which the singleton does not ensure.           *)
THEOREM LoginsWaitForEachOther ==
    ASSUME Prepared, "crash" \notin Faults
    PROVE  Spec => []LoginsWait
  <1>1. Base /\ LoginInv => LoginsWait
    <2> SUFFICES ASSUME Base, LoginInv, NEW t \in Thread, NEW u \in Thread,
                        pc[u] = "browser", pc[t] = "login"
                 PROVE  lock[client] # NoThread
      BY DEF LoginsWait, At
    <2>1. lock[client] = u
      BY ClientIsOne DEF LoginInv
    <2> QED
      BY <2>1, AuthAssumption DEF NoThread
  <1> QED
    BY <1>1, BaseInvariant, LoginInvariant, PTL

(* Two logins of the user are more than cache_ttl_s apart, whatever the    *)
(* threads do and however logins fail in between.                          *)
THEOREM LoginsAreSpaced ==
    ASSUME Prepared, "crash" \notin Faults
    PROVE  Spec => []LoginsSpaced
  <1>1. LoginInv => LoginsSpaced
    BY DEF LoginInv
  <1> QED
    BY <1>1, LoginInvariant, PTL

-----------------------------------------------------------------------------
(* The keyring, for one thread.                                            *)

LEMMA CredFacts ==
    ASSUME Base
    PROVE  /\ issued \in Nat
           /\ keyring.at \in Nat /\ keyring.rt \in Nat
           /\ keyring = [at |-> keyring.at, rt |-> keyring.rt]
           /\ creds.at \in Nat /\ creds.rt \in Nat
           /\ creds = [at |-> creds.at, rt |-> creds.rt]
           /\ \A t \in Thread : arg[t].at \in Nat /\ arg[t].rt \in Nat
           /\ \A c \in Client : cached[c].at \in Nat /\ cached[c].rt \in Nat
  <1>1. \A c \in Cred : c.at \in Nat /\ c.rt \in Nat /\ c = [at |-> c.at, rt |-> c.rt]
    BY DEF Cred
  <1>2. /\ issued \in 0..MaxGrant /\ keyring \in Cred /\ creds \in Cred
        /\ arg \in [Thread -> Cred] /\ cached \in [Client -> Cred]
    BY DEF Base, TypeOK
  <1> QED
    BY <1>1, <1>2

(* Nothing that the keyring depends on changes, and t is at a point where  *)
(* nothing is required of it.                                              *)
LEMMA KeyringCalm ==
    ASSUME Base, KeyringInv, \A t, u \in Thread : t = u, NEW t \in Thread,
           NEW l \in {"attach", "call", "call2", "done", "refresh", "construct", "failed", "post",
                      "deleteAccess"},
           pc' = [pc EXCEPT ![t] = l], UNCHANGED <<keyring, creds, cached, issued, mode>>
    PROVE  KeyringInv'
  <1>1. \A u \in Thread : pc'[u] = l
    BY DEF Base, TypeOK
  <1> QED
    BY <1>1 DEF KeyringInv, KeyringRefreshable, KeyringAt, Whole

(* An attempt that fails while the keyring is left as it is or has lost    *)
(* both tokens.                                                            *)
LEMMA KeyringFails ==
    ASSUME Base, KeyringInv, \A t, u \in Thread : t = u, NEW t \in Thread, AttemptFails(t),
           UNCHANGED <<keyring, creds, cached, issued, mode>>
    PROVE  KeyringInv'
  <1>1. PICK l \in {"attach", "failed"} : pc' = [pc EXCEPT ![t] = l]
    BY FailFacts
  <1> QED
    BY <1>1, KeyringCalm

LEMMA CallKeyring ==
    ASSUME Base, KeyringInv, \A t, u \in Thread : t = u, NEW t \in Thread, Call(t)
    PROVE  KeyringInv'
  <1>1. UNCHANGED <<keyring, creds, cached, issued, mode>>
    BY DEF Call, Attach, CallAccepted, CallRejected, RepeatRejected, CallFails, auth, pkce, idp, env
  <1>2. CASE Attach(t) \/ CallAccepted(t) \/ CallRejected(t)
    BY <1>1, <1>2, KeyringCalm DEF Attach, CallAccepted, CallRejected, Goto
  <1>3. CASE RepeatRejected(t) \/ CallFails(t)
    BY <1>1, <1>3, KeyringFails DEF RepeatRejected, CallFails
  <1> QED
    BY <1>2, <1>3 DEF Call

(* A new grant, which is put in _creds at once.                            *)
LEMMA GrantKeyring ==
    ASSUME Base, KeyringInv, AlwaysRefresh, \A t, u \in Thread : t = u, NEW t \in Thread,
           NEW c \in Answers, Issue(c), creds' = c,
           pc' = [pc EXCEPT ![t] = "storeRefresh"], UNCHANGED <<keyring, cached, mode>>
    PROVE  KeyringInv'
  <1>1. \A u \in Thread : pc'[u] = "storeRefresh"
    BY DEF Base, TypeOK
  <1>2. creds'.at = issued + 1 /\ creds'.rt = issued + 1 /\ issued' = issued + 1
    BY AnswerFacts
  <1>3. Whole(creds)' /\ creds'.at # 0
    BY <1>2, CredFacts DEF Whole
  <1>4. \A d \in Client : Whole(cached[d])'
    BY <1>2, CredFacts DEF KeyringInv, Whole
  <1>5. KeyringRefreshable' /\ keyring'.at <= issued' /\ keyring'.rt <= issued'
        /\ keyring'.at <= creds'.rt
    BY <1>2, CredFacts DEF KeyringInv, KeyringRefreshable
  <1> QED
    BY <1>1, <1>3, <1>4, <1>5 DEF KeyringInv, KeyringAt

LEMMA RefreshKeyring ==
    ASSUME Base, KeyringInv, AlwaysRefresh, \A t, u \in Thread : t = u, NEW t \in Thread,
           Refresh(t)
    PROVE  KeyringInv'
  <1> USE DEF At, Goto, auth, pkce, idp, env
  <1>1. CASE InitClient(t)
    <2>1. CASE pc' = [pc EXCEPT ![t] = "construct"]
      BY <1>1, <2>1, KeyringCalm DEF InitClient
    <2>2. CASE UNCHANGED pc
      BY <1>1, <2>2 DEF InitClient, calls, KeyringInv, KeyringRefreshable, KeyringAt, Whole
    <2> QED
      BY <1>1, <2>1, <2>2 DEF InitClient
  <1>2. CASE ConstructClient(t) \/ RefreshRefused(t)
    BY <1>2, KeyringCalm DEF ConstructClient, RefreshRefused
  <1>3. CASE InitClientFails(t) \/ RefreshRaises(t)
    BY <1>3, KeyringFails DEF InitClientFails, RefreshRaises
  <1>4. CASE RefreshStarts(t)
    <2>1. UNCHANGED <<keyring, creds, cached, issued, mode>> /\ mode # "direct"
      BY <1>4 DEF RefreshStarts
    <2>2. CASE creds.rt # 0 \/ (mode # "device" /\ creds # NoCred)
      <3>1. PICK l \in {"post", "deleteAccess"} : pc' = [pc EXCEPT ![t] = l]
        BY <1>4, <2>2 DEF RefreshStarts
      <3> QED
        BY <2>1, <3>1, KeyringCalm
    <2>3. CASE creds.rt = 0 /\ (mode = "device" \/ creds = NoCred)
      <3>1. PICK l \in {"device", "login"} : pc' = [pc EXCEPT ![t] = l]
        BY <1>4, <2>3 DEF RefreshStarts
      <3>2. keyring.at = 0
        BY <2>1, <2>3, CredFacts DEF KeyringInv, Whole
      <3>3. \A u \in Thread : pc'[u] = l
        BY <3>1 DEF Base, TypeOK
      <3> QED
        BY <2>1, <3>2, <3>3 DEF KeyringInv, KeyringRefreshable, KeyringAt, Whole
    <2> QED
      BY <2>2, <2>3
  <1>5. CASE RefreshGranted(t)
    BY <1>5, GrantKeyring DEF RefreshGranted
  <1>6. CASE StoreRefresh(t)
    <2>1. /\ keyring' = IF creds.rt # 0 THEN [at |-> keyring.at, rt |-> creds.rt] ELSE keyring
          /\ arg' = [arg EXCEPT ![t] = creds] /\ UNCHANGED <<creds, cached, issued, mode>>
      BY <1>6 DEF StoreRefresh
    <2>2. \A u \in Thread : pc'[u] = "storeAccess" /\ arg'[u] = creds
      BY <1>6, <2>1 DEF StoreRefresh, Base, TypeOK
    <2>3. /\ mode # "direct" /\ Whole(creds) /\ creds.at # 0 /\ keyring.at <= creds.rt
          /\ creds.rt >= creds.at
      BY <1>6 DEF StoreRefresh, Base, FlowAt, KeyringInv, KeyringAt, Whole
    <2>4. keyring' = [at |-> keyring.at, rt |-> creds.rt]
      BY <2>1, <2>3, CredFacts
    <2>5. keyring'.at = keyring.at /\ keyring'.rt = creds.rt
      BY <2>4
    <2> QED
      BY <2>1, <2>2, <2>3, <2>5, CredFacts DEF KeyringInv, KeyringRefreshable, KeyringAt, Whole
  <1>7. CASE StoreAccess(t)
    <2>1. /\ keyring' = [at |-> arg[t].at, rt |-> keyring.rt]
          /\ UNCHANGED <<creds, cached, issued, mode>>
      BY <1>7 DEF StoreAccess
    <2>2. \A u \in Thread : pc'[u] = "attach2"
      BY <1>7 DEF StoreAccess, Base, TypeOK
    <2>3. /\ mode # "direct" /\ arg[t].at = creds.at /\ creds.at # 0 /\ keyring.rt >= creds.at
          /\ Whole(creds)
      BY <1>7 DEF StoreAccess, Base, FlowAt, KeyringInv, KeyringAt
    <2>4. keyring'.at = creds.at /\ keyring'.rt = keyring.rt
      BY <2>1, <2>3
    <2> QED
      BY <2>1, <2>2, <2>3, <2>4 DEF KeyringInv, KeyringRefreshable, KeyringAt, Whole
  <1>8. CASE DeleteAccess(t)
    <2>1. /\ keyring' = [at |-> 0, rt |-> keyring.rt] /\ UNCHANGED <<creds, cached, issued, mode>>
      BY <1>8 DEF DeleteAccess
    <2>2. \A u \in Thread : pc'[u] \in {"deleteRefresh", "giveUpRefresh"}
      BY <1>8 DEF DeleteAccess, Base, TypeOK
    <2>3. keyring'.at = 0 /\ keyring'.rt = keyring.rt
      BY <2>1
    <2> QED
      BY <2>1, <2>2, <2>3, CredFacts DEF KeyringInv, KeyringRefreshable, KeyringAt, Whole
  <1>9. CASE DeleteRefresh(t)
    <2>1. /\ keyring' = [at |-> keyring.at, rt |-> 0] /\ UNCHANGED <<creds, cached, issued, mode>>
      BY <1>9 DEF DeleteRefresh
    <2>2. PICK l \in {"device", "login", "attach", "failed"} : pc' = [pc EXCEPT ![t] = l]
      BY <1>9, FailFacts DEF DeleteRefresh
    <2>3. \A u \in Thread : pc'[u] = l
      BY <2>2 DEF Base, TypeOK
    <2>4. keyring.at = 0
      BY <1>9 DEF DeleteRefresh, KeyringInv, KeyringAt
    <2>5. keyring'.at = 0 /\ keyring'.rt = 0
      BY <2>1, <2>4
    <2> QED
      BY <2>1, <2>3, <2>5, CredFacts DEF KeyringInv, KeyringRefreshable, KeyringAt, Whole
  <1> QED
    BY <1>1, <1>2, <1>3, <1>4, <1>5, <1>6, <1>7, <1>8, <1>9 DEF Refresh

(* The cache of the AuthorizationClient is emptied or filled with a grant. *)
LEMMA CacheKeyring ==
    ASSUME Base, KeyringInv, \A t, u \in Thread : t = u, NEW t \in Thread,
           NEW l \in {"attach", "failed", "browser"}, NEW d \in Client,
           pc[t] = "login", pc' = [pc EXCEPT ![t] = l],
           cached' = [cached EXCEPT ![d] = NoCred], UNCHANGED <<keyring, creds, issued, mode>>
    PROVE  KeyringInv'
  <1>1. \A u \in Thread : pc'[u] = l
    BY DEF Base, TypeOK
  <1>2. keyring.at = 0
    BY DEF KeyringInv, KeyringAt
  <1>3. \A c \in Client : Whole(cached[c])' /\ (cached'[c].at = 0 => cached'[c] = NoCred)
    <2> SUFFICES ASSUME NEW c \in Client
                 PROVE  Whole(cached[c])' /\ (cached'[c].at = 0 => cached'[c] = NoCred)
      OBVIOUS
    <2>1. CASE c = d
      <3>1. cached'[c] = NoCred /\ cached'[c].at = 0 /\ cached'[c].rt = 0
        BY <2>1 DEF Base, TypeOK, NoCred
      <3> QED
        BY <3>1, CredFacts DEF Whole
    <2>2. CASE c # d
      BY <2>2 DEF Base, TypeOK, KeyringInv, Whole
    <2> QED
      BY <2>1, <2>2
  <1> QED
    BY <1>1, <1>2, <1>3 DEF KeyringInv, KeyringRefreshable, KeyringAt, Whole

LEMMA LoginKeyring ==
    ASSUME Base, KeyringInv, AlwaysRefresh, \A t, u \in Thread : t = u, NEW t \in Thread,
           Login(t)
    PROVE  KeyringInv'
  <1> USE DEF At, Goto, auth, pkce, idp, env
  <1>1. pc[t] = "login" => client \in Client
    BY DEF Base, TypeOK, FlowAt
  <1>2. CASE LoginFromCache(t)
    <2>1. /\ UNCHANGED <<keyring, creds, cached, issued, mode>>
          /\ arg' = [arg EXCEPT ![t] = cached[client]] /\ cached[client] # NoCred
          /\ pc[t] = "login" /\ client \in Client
      BY <1>1, <1>2 DEF LoginFromCache, CacheIsUsable
    <2>2. \A u \in Thread : u = t /\ pc'[u] = "assign" /\ arg'[u] = cached[client]
      BY <1>2, <2>1 DEF LoginFromCache, Base, TypeOK
    <2>3. keyring.at = 0 /\ Whole(cached[client]) /\ cached[client].at # 0
      BY <2>1 DEF KeyringInv, KeyringAt
    <2> QED
      BY <2>1, <2>2, <2>3 DEF KeyringInv, KeyringRefreshable, KeyringAt, Whole
  <1>3. CASE LoginInBrowser(t)
    BY <1>1, <1>3, CacheKeyring DEF LoginInBrowser
  <1>4. CASE LoginPortTaken(t)
    <2>1. PICK l \in {"attach", "failed"} : pc' = [pc EXCEPT ![t] = l]
      BY <1>4, FailFacts DEF LoginPortTaken
    <2> QED
      BY <1>1, <1>4, <2>1, CacheKeyring DEF LoginPortTaken
  <1>5. CASE LoginCompletes(t)
    <2>1. PICK c \in Answers :
            /\ Issue(c) /\ cached' = [cached EXCEPT ![mine[t]] = c]
            /\ arg' = [arg EXCEPT ![t] = c]
      BY <1>5 DEF LoginCompletes
    <2>2. /\ UNCHANGED <<keyring, creds, mode>> /\ keyring.at = 0
      BY <1>5 DEF LoginCompletes, KeyringInv, KeyringAt
    <2>3. c.at = issued + 1 /\ c.rt = issued + 1 /\ issued' = issued + 1 /\ issued \in Nat
      BY <2>1, AnswerFacts, CredFacts
    <2>4. \A u \in Thread : u = t /\ pc'[u] = "assign" /\ arg'[u] = c
      BY <1>5, <2>1 DEF LoginCompletes, Base, TypeOK
    <2>5. \A d \in Client : Whole(cached[d])' /\ (cached'[d].at = 0 => cached'[d] = NoCred)
      <3> SUFFICES ASSUME NEW d \in Client
                   PROVE  Whole(cached[d])' /\ (cached'[d].at = 0 => cached'[d] = NoCred)
        OBVIOUS
      <3>1. CASE cached'[d] = c
        BY <2>3, <3>1 DEF Whole
      <3>2. CASE cached'[d] = cached[d]
        BY <2>3, <3>2, CredFacts DEF KeyringInv, Whole
      <3> QED
        BY <2>1, <3>1, <3>2 DEF Base, TypeOK
    <2>6. mode # "direct" => Whole(creds)'
      BY <2>2, <2>3, CredFacts DEF KeyringInv, Whole
    <2>7. keyring'.at <= issued' /\ keyring'.rt <= issued'
      BY <2>2, <2>3, CredFacts DEF KeyringInv
    <2> QED
      BY <2>2, <2>3, <2>4, <2>5, <2>6, <2>7 DEF KeyringInv, KeyringRefreshable, KeyringAt, Whole
  <1>6. CASE LoginRefused(t)
    BY <1>6, KeyringFails DEF LoginRefused
  <1>7. CASE LoginStray(t)
    <2>1. \A u \in Thread : pc'[u] = "stuck" /\ pc[u] = "browser"
      BY <1>7 DEF LoginStray, Base, TypeOK
    <2>2. UNCHANGED <<keyring, creds, cached, issued, mode>>
      BY <1>7 DEF LoginStray
    <2> QED
      BY <2>1, <2>2 DEF KeyringInv, KeyringRefreshable, KeyringAt, Whole
  <1>8. CASE Assign(t)
    <2>1. creds' = arg[t] /\ pc[t] = "assign" /\ UNCHANGED <<keyring, cached, issued, mode>>
      BY <1>8 DEF Assign
    <2>2. keyring.at = 0 /\ Whole(arg[t]) /\ arg[t].at # 0
      BY <2>1 DEF KeyringInv, KeyringAt
    <2>3. \A u \in Thread : pc'[u] = "storeRefresh"
      BY <1>8 DEF Assign, Base, TypeOK
    <2> QED
      BY <2>1, <2>2, <2>3, CredFacts DEF KeyringInv, KeyringRefreshable, KeyringAt, Whole
  <1> QED
    BY <1>2, <1>3, <1>4, <1>5, <1>6, <1>7, <1>8 DEF Login

LEMMA OtherFlowsKeyring ==
    ASSUME Base, KeyringInv, AlwaysRefresh, \A t, u \in Thread : t = u, NEW t \in Thread,
           OtherFlows(t)
    PROVE  KeyringInv'
  <1> USE DEF At, Goto, auth, pkce, idp, env
  <1>1. CASE PollGranted(t)
    BY <1>1, GrantKeyring DEF PollGranted
  <1>2. CASE DirectRefused(t)
    BY <1>2, KeyringFails DEF DirectRefused
  <1>3. CASE DeviceCode(t) /\ AttemptFails(t)
    BY <1>3, KeyringFails DEF DeviceCode
  <1>4. CASE (DeviceCode(t) /\ ~ AttemptFails(t)) \/ PollPending(t) \/ PollRefused(t)
    <2>1. /\ UNCHANGED <<keyring, creds, cached, issued, mode>>
          /\ pc[t] \in {"device", "poll"}
      BY <1>4 DEF DeviceCode, PollPending, PollRefused
    <2>2. \A u \in Thread : u = t /\ pc'[u] \in {"poll", "giveUpAccess"}
      BY <1>4 DEF DeviceCode, PollPending, PollRefused, Base, TypeOK
    <2>3. keyring.at = 0
      BY <2>1 DEF KeyringInv, KeyringAt
    <2> QED
      BY <2>1, <2>2, <2>3 DEF KeyringInv, KeyringRefreshable, KeyringAt, Whole
  <1>5. CASE DirectGranted(t)
    <2>1. /\ mode = "direct" /\ issued' = issued + 1
          /\ UNCHANGED <<keyring, cached, mode>>
      BY <1>5 DEF DirectGranted, Issue
    <2>2. \A u \in Thread : pc'[u] = "attach2"
      BY <1>5 DEF DirectGranted, Base, TypeOK
    <2>3. \A d \in Client : Whole(cached[d])'
      BY <2>1, CredFacts DEF KeyringInv, Whole
    <2>4. keyring'.at <= issued' /\ keyring'.rt <= issued'
      BY <2>1, CredFacts DEF KeyringInv
    <2> QED
      BY <2>1, <2>2, <2>3, <2>4 DEF KeyringInv, KeyringRefreshable, KeyringAt
  <1> QED
    BY <1>1, <1>2, <1>3, <1>4, <1>5 DEF OtherFlows

LEMMA NoCredFacts ==
    ASSUME issued \in Nat
    PROVE  NoCred.at = 0 /\ NoCred.rt = 0 /\ Whole(NoCred)
  <1>1. NoCred.at = 0 /\ NoCred.rt = 0
    BY DEF NoCred
  <1> QED
    BY <1>1 DEF Whole

(* A new process: what it retrieves is whole, because the keyring is.      *)
LEMMA RestartKeyring ==
    ASSUME Base, KeyringInv, Restart
    PROVE  KeyringInv'
  <1>1. /\ creds' = IF keyring.at = 0 \/ mode = "direct" THEN NoCred ELSE keyring
        /\ cached' = [c \in Client |-> NoCred] /\ pc' = [t \in Thread |-> "attach"]
        /\ UNCHANGED <<keyring, issued, mode>>
    BY DEF Restart, Retrieved, idp
  <1>2. NoCred.at = 0 /\ NoCred.rt = 0 /\ Whole(NoCred)
    BY CredFacts, NoCredFacts
  <1>3. mode # "direct" => Whole(creds)' /\ (creds'.at = 0 => keyring'.at = 0)
    BY <1>1, <1>2 DEF KeyringInv, KeyringRefreshable, Whole
  <1>4. \A c \in Client : Whole(cached[c])' /\ cached'[c] = NoCred
    BY <1>1, <1>2 DEF Whole
  <1> QED
    BY <1>1, <1>3, <1>4 DEF KeyringInv, KeyringRefreshable, KeyringAt

LEMMA InitKeyring == Init => KeyringInv
  <1> SUFFICES ASSUME Init PROVE KeyringInv
    OBVIOUS
  <1>1. /\ issued \in Nat /\ keyring.at = issued /\ keyring.rt = issued
        /\ creds = IF keyring.at = 0 \/ mode = "direct" THEN NoCred ELSE keyring
        /\ cached = [c \in Client |-> NoCred] /\ pc = [t \in Thread |-> "attach"]
    BY DEF Init, Retrieved
  <1>2. NoCred.at = 0 /\ NoCred.rt = 0 /\ Whole(NoCred)
    BY <1>1, NoCredFacts
  <1>3. mode # "direct" => Whole(creds) /\ (creds.at = 0 => keyring.at = 0)
    BY <1>1, <1>2 DEF Whole
  <1> QED
    BY <1>1, <1>2, <1>3 DEF KeyringInv, KeyringRefreshable, KeyringAt

LEMMA EnvironmentKeyring ==
    ASSUME Base, KeyringInv, (\E g \in Grant : Expire(g)) \/ Tick \/ UNCHANGED vars
    PROVE  KeyringInv'
  <1>1. UNCHANGED <<creds, keyring, cached, pc, arg, issued, mode>>
    BY EnvironmentBase
  <1> QED
    BY <1>1 DEF KeyringInv, KeyringRefreshable, KeyringAt, Whole

(* With one thread, and a token endpoint that always returns a refresh     *)
(* token: at every moment, so also at a crash between two writes of        *)
(* KeyringStore.store or delete, and after any number of restarts, expired *)
(* tokens and refused logins, the keyring's refresh token is at least as   *)
(* new as its access token.                                                *)
THEOREM KeyringStaysRefreshable ==
    ASSUME AlwaysRefresh, \A t, u \in Thread : t = u
    PROVE  Spec => []KeyringRefreshable
  <1>1. Base /\ KeyringInv /\ [Next]_vars => KeyringInv'
    BY CallKeyring, RefreshKeyring, LoginKeyring, OtherFlowsKeyring, RestartKeyring,
       EnvironmentKeyring DEF Next, Step
  <1>2. KeyringInv => KeyringRefreshable
    BY DEF KeyringInv
  <1> QED
    BY <1>1, <1>2, InitKeyring, BaseInvariant, PTL DEF Spec

=============================================================================
