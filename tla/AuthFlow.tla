------------------------------ MODULE AuthFlow ------------------------------
(***************************************************************************)
(* Calls to Flyte Admin made by the threads of one client, through its two *)
(* gRPC interceptors: RetryExceptionWrapperInterceptor, the outer one,     *)
(* repeats a call that failed; AuthUnaryInterceptor attaches the access    *)
(* token, and refreshes the credentials and repeats the call once when it  *)
(* is rejected (flytekit/clients/grpc_utils). The threads share one        *)
(* authenticator (clients/auth/authenticator.py), the AuthorizationClient  *)
(* with its lock and cache (auth_client.py), and the user's keyring        *)
(* (keyring.py), which also outlives the process.                          *)
(*                                                                         *)
(* A grant is an answer of the token endpoint, numbered in the order of    *)
(* issue. Its access token and its refresh token carry its number.         *)
(***************************************************************************)
EXTENDS Naturals, Sequences, FiniteSets

CONSTANTS
    Thread,       \* the threads, one call each
    Streams,      \* the threads whose call is unary-stream
    Modes,        \* the authenticators: "pkce", "device" and "direct"
    Prepared,     \* the AuthorizationClient exists when the threads start
    ttl,          \* cache_ttl_s
    polls,        \* how often the device flow polls: expires_in / interval
    Rotates,      \* the token endpoint accepts a refresh token only once
    AlwaysRefresh,\* every grant comes with a refresh token
    Faults,       \* the faults that may happen, a subset of FaultKind
    MaxGrant,     \* bound on the grants
    MaxExpired,   \* bound on the access tokens that expire
    MaxTime,      \* bound on the clock
    MaxRestarts   \* bound on the restarts of the process

(* Admin fails a call for another reason, or answers UNKNOWN; the token
   endpoint refuses; the callback server is visited on another path;
   another program holds its port; the process dies. *)
FaultKind == {"rpc", "unknown", "refuse", "stray", "port", "crash"}

ASSUME AuthAssumption ==
    /\ Streams \subseteq Thread
    /\ IsFiniteSet(Thread) /\ "none" \notin Thread
    /\ Modes \subseteq {"pkce", "device", "direct"}
    /\ Prepared \in BOOLEAN
    /\ ttl \in Nat
    /\ polls \in Nat \ {0}
    /\ Rotates \in BOOLEAN /\ AlwaysRefresh \in BOOLEAN
    /\ Faults \subseteq FaultKind
    /\ MaxGrant \in Nat \ {0} /\ MaxExpired \in Nat /\ MaxTime \in Nat
    /\ MaxRestarts \in Nat

Grant == 1..MaxGrant
(* Credentials: at is the grant of access_token, rt that of refresh_token; 0
   stands for None. *)
Cred == [at : 0..MaxGrant, rt : 0..MaxGrant]
NoCred == [at |-> 0, rt |-> 0]
NoThread == "none"
(* The AuthorizationClients that can come into being; 0 stands for None. *)
Client == 1..(1 + Cardinality(Thread))

VARIABLES
    creds,    \* Authenticator._creds
    keyring,  \* the keyring's entry for the endpoint
    client,   \* PKCEAuthenticator._auth_client
    instance, \* _SingletonPerEndpoint._instances of the endpoint
    made,     \* the number of AuthorizationClients created
    cached,   \* AuthorizationClient._cached_credentials
    cachedTs, \* AuthorizationClient._cached_credentials_ts
    lock,     \* the thread that holds AuthorizationClient._lock
    mode,     \* the authenticator in use
    mine,     \* the AuthorizationClient on which the thread logs in
    pc,       \* where each thread stands
    tok,      \* the access token attached to the thread's call
    arg,      \* the credentials the thread's current operation works on
    retries,  \* the local `retries` of the outer interceptor
    polled,   \* how often the thread has polled the token endpoint
    issued,   \* the number of grants so far
    accepted, \* the access tokens that Admin accepts
    fresh,    \* the refresh tokens that the token endpoint accepts
    expired,  \* the number of access tokens that have expired
    now,      \* the clock
    logins,   \* history: when the user completed a browser login
    restarts  \* the number of restarts

pkce == <<client, instance, made, cached, cachedTs, lock>>
auth == <<creds, keyring, pkce>>
calls == <<tok, arg, retries, polled, mine>>
idp == <<issued, accepted, fresh, expired>>
env == <<now, logins, restarts, mode>>
vars == <<auth, pc, calls, idp, env>>

Refreshing == {"refresh", "construct", "post", "assign", "storeRefresh", "storeAccess",
               "deleteAccess", "deleteRefresh", "giveUpAccess", "giveUpRefresh",
               "login", "browser", "stuck", "device", "poll"}
PC == Refreshing \cup {"attach", "call", "attach2", "call2", "done", "failed"}

(* Every variable has its type; in particular the device flow stops polling
   when the code has expired (token_client.py 157-191), and no more
   AuthorizationClients come into being than threads could create. *)
TypeOK ==
    /\ creds \in Cred /\ keyring \in Cred /\ mode \in Modes
    /\ {client, instance, made} \subseteq Client \cup {0}
    /\ cached \in [Client -> Cred] /\ cachedTs \in [Client -> 0..MaxTime]
    /\ lock \in [Client -> Thread \cup {NoThread}]
    /\ mine \in [Thread -> Client \cup {0}]
    /\ pc \in [Thread -> PC]
    /\ tok \in [Thread -> 0..MaxGrant]
    /\ arg \in [Thread -> Cred]
    /\ retries \in [Thread -> Nat]
    /\ polled \in [Thread -> 0..polls]
    /\ issued \in 0..MaxGrant
    /\ accepted \subseteq Grant /\ fresh \subseteq Grant
    /\ expired \in 0..MaxExpired
    /\ now \in 0..MaxTime /\ logins \in Seq(0..MaxTime)
    /\ restarts \in 0..MaxRestarts

(* The keyring is empty, or holds what an earlier process stored. The PKCE and
   the device authenticators start from it, the others from nothing. *)
Retrieved(k) == IF k.at = 0 \/ mode = "direct" THEN NoCred ELSE k
Init ==
    /\ mode \in Modes
    /\ issued \in {0, 1}
    /\ keyring = [at |-> issued, rt |-> issued]
    /\ creds = Retrieved(keyring)
    /\ accepted \in SUBSET (1..issued) /\ fresh \in SUBSET (1..issued)
    /\ client = IF Prepared /\ mode = "pkce" THEN 1 ELSE 0
    /\ instance = client /\ made = client
    /\ cached = [c \in Client |-> NoCred] /\ cachedTs = [c \in Client |-> 0]
    /\ lock = [c \in Client |-> NoThread]
    /\ mine = [t \in Thread |-> 0]
    /\ pc = [t \in Thread |-> "attach"]
    /\ tok = [t \in Thread |-> 0]
    /\ arg = [t \in Thread |-> NoCred]
    /\ retries = [t \in Thread |-> 0]
    /\ polled = [t \in Thread |-> 0]
    /\ expired = 0 /\ now = 0 /\ logins = <<>> /\ restarts = 0

Goto(t, l) == pc' = [pc EXCEPT ![t] = l]
At(t, l) == pc[t] = l

-----------------------------------------------------------------------------
(* The interceptors *)

(* __init__ ignores its argument. *)
max_retries == 3

MayRetry(t) == t \notin Streams /\ retries[t] # max_retries
(* The attempt ended with an exception or a failed future: the outer
   interceptor, which does not touch streams, repeats the whole call. *)
AttemptFails(t) ==
    IF MayRetry(t)
    THEN /\ Goto(t, "attach")
         /\ retries' = [retries EXCEPT ![t] = @ + 1]
    ELSE Goto(t, "failed") /\ UNCHANGED retries

(* _call_details_with_auth_metadata, before the call and before its repeat. *)
Attach(t) ==
    /\ At(t, "attach") \/ At(t, "attach2")
    /\ tok' = [tok EXCEPT ![t] = creds.at]
    /\ Goto(t, IF At(t, "attach") THEN "call" ELSE "call2")
    /\ UNCHANGED <<auth, arg, retries, polled, mine, idp, env>>

CallAccepted(t) ==
    /\ At(t, "call") \/ At(t, "call2")
    /\ tok[t] \in accepted
    /\ Goto(t, "done")
    /\ UNCHANGED <<auth, calls, idp, env>>

(* UNAUTHENTICATED, or UNKNOWN for a unary call: refresh_credentials. *)
CallRejected(t) ==
    /\ At(t, "call")
    /\ tok[t] \notin accepted \/ (t \notin Streams /\ "unknown" \in Faults)
    /\ Goto(t, "refresh")
    /\ UNCHANGED <<auth, tok, arg, retries, polled, mine, idp, env>>

(* The repeated call is not inspected any more. *)
RepeatRejected(t) ==
    /\ At(t, "call2")
    /\ tok[t] \notin accepted
    /\ AttemptFails(t)
    /\ UNCHANGED <<auth, tok, arg, polled, mine, idp, env>>

CallFails(t) ==
    /\ "rpc" \in Faults
    /\ At(t, "call") \/ At(t, "call2")
    /\ AttemptFails(t)
    /\ UNCHANGED <<auth, tok, arg, polled, mine, idp, env>>

-----------------------------------------------------------------------------
(* refresh_credentials *)

(* The token endpoint issues a grant, with a refresh token or without. *)
Answers == [at : {issued + 1},
            rt : IF AlwaysRefresh THEN {issued + 1} ELSE {0, issued + 1}]
Issue(c) ==
    /\ issued < MaxGrant
    /\ issued' = c.at
    /\ accepted' = accepted \cup {c.at}
    /\ UNCHANGED expired

(* PKCE, _initialize_auth_client: the client of this authenticator, else the
   one of the endpoint, else a new one. The look-up and the construction are not
   one step: two threads may both find none. *)
InitClient(t) ==
    /\ At(t, "refresh")
    /\ mode = "pkce" /\ client = 0
    /\ \/ instance = 0 /\ Goto(t, "construct") /\ UNCHANGED client
       \/ instance # 0 /\ client' = instance /\ UNCHANGED pc
    /\ UNCHANGED <<creds, keyring, instance, made, cached, cachedTs, lock, calls, idp, env>>
ConstructClient(t) ==
    /\ At(t, "construct")
    /\ made' = made + 1
    /\ instance' = made'
    /\ client' = made'
    /\ Goto(t, "refresh")
    /\ UNCHANGED <<creds, keyring, cached, cachedTs, lock, calls, idp, env>>

(* get_client_config is a call to Admin itself. *)
InitClientFails(t) ==
    /\ "rpc" \in Faults
    /\ At(t, "refresh")
    /\ mode = "pkce" /\ client = 0
    /\ AttemptFails(t)
    /\ UNCHANGED <<auth, tok, arg, polled, mine, idp, env>>

(* We have credentials: try the refresh token, if there is one. The PKCE flow
   treats a missing refresh token like a refused one. *)
RefreshStarts(t) ==
    /\ At(t, "refresh")
    /\ mode = "device" \/ (mode = "pkce" /\ client # 0)
    /\ arg' = [arg EXCEPT ![t] = creds]
    /\ Goto(t, IF creds.rt # 0 THEN "post"
               ELSE IF mode = "device" THEN "device"
               ELSE IF creds = NoCred THEN "login" ELSE "deleteAccess")
    /\ UNCHANGED <<auth, tok, retries, polled, mine, idp, env>>

RefreshGranted(t) ==
    /\ At(t, "post")
    /\ arg[t].rt \in fresh
    /\ \E c \in Answers :
          /\ Issue(c)
          /\ creds' = c
          /\ fresh' = (IF Rotates THEN fresh \ {arg[t].rt} ELSE fresh)
                          \cup ({c.rt} \ {0})
    /\ Goto(t, "storeRefresh")
    /\ UNCHANGED <<keyring, pkce, calls, env>>

RefreshRefused(t) ==
    /\ At(t, "post")
    /\ arg[t].rt \notin fresh \/ "refuse" \in Faults
    /\ Goto(t, "deleteAccess")
    /\ UNCHANGED <<auth, calls, idp, env>>

(* The token endpoint cannot be reached, or its answer cannot be read. *)
RefreshRaises(t) ==
    /\ "rpc" \in Faults
    /\ At(t, "post")
    /\ AttemptFails(t)
    /\ UNCHANGED <<auth, tok, arg, polled, mine, idp, env>>

StoreForgetsRefresh(t) ==
    /\ At(t, "storeRefresh")
    /\ arg' = [arg EXCEPT ![t] = creds]
    /\ Goto(t, "storeAccess")
    /\ UNCHANGED <<auth, tok, retries, polled, mine, idp, env>>
(* KeyringStore.store(self._creds): the refresh token, if any, first. *)
StoreRefresh(t) ==
    /\ At(t, "storeRefresh")
    /\ arg' = [arg EXCEPT ![t] = creds]
    /\ keyring' = IF creds.rt # 0 THEN [at |-> keyring.at, rt |-> creds.rt] ELSE keyring
    /\ Goto(t, "storeAccess")
    /\ UNCHANGED <<creds, pkce, tok, retries, polled, mine, idp, env>>

StoreAccess(t) ==
    /\ At(t, "storeAccess")
    /\ keyring' = [at |-> arg[t].at, rt |-> keyring.rt]
    /\ Goto(t, "attach2")
    /\ UNCHANGED <<creds, pkce, calls, idp, env>>

(* KeyringStore.delete: before the full flow, or before giving up. *)
DeleteAccess(t) ==
    /\ At(t, "deleteAccess") \/ At(t, "giveUpAccess")
    /\ keyring' = [at |-> 0, rt |-> keyring.rt]
    /\ Goto(t, IF At(t, "deleteAccess") THEN "deleteRefresh" ELSE "giveUpRefresh")
    /\ UNCHANGED <<creds, pkce, calls, idp, env>>
DeleteRefresh(t) ==
    /\ keyring' = [at |-> keyring.at, rt |-> 0]
    /\ \/ /\ At(t, "deleteRefresh")
          /\ Goto(t, IF mode = "device" THEN "device" ELSE "login")
          /\ UNCHANGED retries
       \/ At(t, "giveUpRefresh") /\ AttemptFails(t)
    /\ UNCHANGED <<creds, pkce, tok, arg, polled, mine, idp, env>>

-----------------------------------------------------------------------------
(* PKCE: get_creds_from_remote *)

CacheIsUsable(c) == cached[c] # NoCred /\ ~(cachedTs[c] + ttl < now)
PortIsTaken == \E u \in Thread : At(u, "browser")

LoginFromCache(t) ==
    /\ At(t, "login")
    /\ lock[client] = NoThread
    /\ CacheIsUsable(client)
    /\ arg' = [arg EXCEPT ![t] = cached[client]]
    /\ Goto(t, "assign")
    /\ UNCHANGED <<auth, tok, retries, polled, mine, idp, env>>

LoginWithoutLock(t) ==
    /\ At(t, "login")
    /\ ~CacheIsUsable(client)
    /\ ~PortIsTaken
    /\ cached' = [cached EXCEPT ![client] = NoCred]
    /\ mine' = [mine EXCEPT ![t] = client]
    /\ Goto(t, "browser")
    /\ UNCHANGED <<creds, keyring, client, instance, made, cachedTs, lock, tok, arg,
                   retries, polled, idp, env>>
(* The callback server is opened, and the browser on the login page. *)
LoginInBrowser(t) ==
    /\ At(t, "login")
    /\ lock[client] = NoThread
    /\ ~CacheIsUsable(client)
    /\ ~PortIsTaken
    /\ cached' = [cached EXCEPT ![client] = NoCred]
    /\ lock' = [lock EXCEPT ![client] = t]
    /\ mine' = [mine EXCEPT ![t] = client]
    /\ Goto(t, "browser")
    /\ UNCHANGED <<creds, keyring, client, instance, made, cachedTs, tok, arg,
                   retries, polled, idp, env>>

(* The port is bound, by the server of another AuthorizationClient or by
   another program. *)
LoginPortTaken(t) ==
    /\ At(t, "login")
    /\ lock[client] = NoThread
    /\ ~CacheIsUsable(client)
    /\ PortIsTaken \/ "port" \in Faults
    /\ cached' = [cached EXCEPT ![client] = NoCred]
    /\ AttemptFails(t)
    /\ UNCHANGED <<creds, keyring, client, instance, made, cachedTs, lock, tok, arg,
                   polled, mine, idp, env>>

LoginNotCached(t) ==
    /\ At(t, "browser")
    /\ \E c \in Answers :
          /\ Issue(c)
          /\ arg' = [arg EXCEPT ![t] = c]
          /\ fresh' = fresh \cup ({c.rt} \ {0})
    /\ lock' = [lock EXCEPT ![mine[t]] = NoThread]
    /\ logins' = Append(logins, now)
    /\ Goto(t, "assign")
    /\ UNCHANGED <<creds, keyring, client, instance, made, cached, cachedTs, tok,
                   retries, polled, mine, now, restarts, mode>>
(* The user logs in; the code is exchanged for a token under the lock. *)
LoginCompletes(t) ==
    /\ At(t, "browser")
    /\ \E c \in Answers :
          /\ Issue(c)
          /\ cached' = [cached EXCEPT ![mine[t]] = c]
          /\ arg' = [arg EXCEPT ![t] = c]
          /\ fresh' = fresh \cup ({c.rt} \ {0})
    /\ cachedTs' = [cachedTs EXCEPT ![mine[t]] = now]
    /\ lock' = [lock EXCEPT ![mine[t]] = NoThread]
    /\ logins' = Append(logins, now)
    /\ Goto(t, "assign")
    /\ UNCHANGED <<creds, keyring, client, instance, made, tok, retries,
                   polled, mine, now, restarts, mode>>

LoginRefusedKeepsLock(t) ==
    /\ "refuse" \in Faults
    /\ At(t, "browser")
    /\ AttemptFails(t)
    /\ UNCHANGED <<auth, tok, arg, polled, mine, idp, env>>
(* Wrong state parameter, or an answer other than 200. *)
LoginRefused(t) ==
    /\ "refuse" \in Faults
    /\ At(t, "browser")
    /\ lock' = [lock EXCEPT ![mine[t]] = NoThread]
    /\ AttemptFails(t)
    /\ UNCHANGED <<creds, keyring, client, instance, made, cached, cachedTs, tok, arg,
                   polled, mine, idp, env>>

(* handle_request serves one request. If that is not the redirect, nothing is
   ever put on the queue, and q.get() blocks with the lock held; the server has
   been closed by then. *)
LoginStray(t) ==
    /\ "stray" \in Faults
    /\ At(t, "browser")
    /\ Goto(t, "stuck")
    /\ UNCHANGED <<auth, calls, idp, env>>

Assign(t) ==
    /\ At(t, "assign")
    /\ creds' = arg[t]
    /\ Goto(t, "storeRefresh")
    /\ UNCHANGED <<keyring, pkce, calls, idp, env>>

-----------------------------------------------------------------------------
(* Device flow, and the two flows that ask for a token directly *)

DeviceCode(t) ==
    /\ At(t, "device")
    /\ polled' = [polled EXCEPT ![t] = 0]
    /\ \/ Goto(t, "poll") /\ UNCHANGED retries
       \/ "refuse" \in Faults /\ AttemptFails(t)
    /\ UNCHANGED <<auth, tok, arg, mine, idp, env>>

PollGranted(t) ==
    /\ At(t, "poll")
    /\ \E c \in Answers :
          /\ Issue(c)
          /\ creds' = c
          /\ fresh' = fresh \cup ({c.rt} \ {0})
    /\ Goto(t, "storeRefresh")
    /\ UNCHANGED <<keyring, pkce, calls, env>>

(* AuthenticationPending: poll again until the device code has expired. *)
PollPending(t) ==
    /\ At(t, "poll")
    /\ polled' = [polled EXCEPT ![t] = @ + 1]
    /\ Goto(t, IF polled[t] + 1 < polls THEN "poll" ELSE "giveUpAccess")
    /\ UNCHANGED <<auth, tok, arg, retries, mine, idp, env>>

PollRefused(t) ==
    /\ "refuse" \in Faults
    /\ At(t, "poll")
    /\ Goto(t, "giveUpAccess")
    /\ UNCHANGED <<auth, calls, idp, env>>

(* The client-credentials and the command authenticators. *)
DirectGranted(t) ==
    /\ mode = "direct"
    /\ At(t, "refresh")
    /\ Issue([at |-> issued + 1, rt |-> 0])
    /\ creds' = [at |-> issued + 1, rt |-> 0]
    /\ Goto(t, "attach2")
    /\ UNCHANGED <<keyring, pkce, calls, fresh, env>>

DirectRefused(t) ==
    /\ mode = "direct"
    /\ "refuse" \in Faults
    /\ At(t, "refresh")
    /\ AttemptFails(t)
    /\ UNCHANGED <<auth, tok, arg, polled, mine, idp, env>>

-----------------------------------------------------------------------------
(* The environment *)

Expire(g) ==
    /\ g \in accepted
    /\ expired < MaxExpired
    /\ expired' = expired + 1
    /\ accepted' = accepted \ {g}
    /\ UNCHANGED <<auth, pc, calls, issued, fresh, env>>

Tick ==
    /\ now < MaxTime
    /\ now' = now + 1
    /\ UNCHANGED <<auth, pc, calls, idp, logins, restarts, mode>>

(* A new process starts from the keyring. *)
Restart ==
    /\ "crash" \in Faults
    /\ restarts < MaxRestarts
    /\ restarts' = restarts + 1
    /\ creds' = Retrieved(keyring)
    /\ client' = 0 /\ instance' = 0 /\ made' = 0
    /\ cached' = [c \in Client |-> NoCred] /\ cachedTs' = [c \in Client |-> 0]
    /\ lock' = [c \in Client |-> NoThread]
    /\ mine' = [t \in Thread |-> 0]
    /\ pc' = [t \in Thread |-> "attach"]
    /\ tok' = [t \in Thread |-> 0]
    /\ arg' = [t \in Thread |-> NoCred]
    /\ retries' = [t \in Thread |-> 0]
    /\ polled' = [t \in Thread |-> 0]
    /\ logins' = <<>>
    /\ UNCHANGED <<keyring, idp, now, mode>>

Call(t) ==
    Attach(t) \/ CallAccepted(t) \/ CallRejected(t) \/ RepeatRejected(t) \/ CallFails(t)
Refresh(t) ==
    \/ InitClient(t) \/ ConstructClient(t) \/ InitClientFails(t)
    \/ RefreshStarts(t) \/ RefreshGranted(t) \/ RefreshRefused(t) \/ RefreshRaises(t)
    \/ StoreRefresh(t) \/ StoreAccess(t) \/ DeleteAccess(t) \/ DeleteRefresh(t)
Login(t) ==
    \/ LoginFromCache(t) \/ LoginInBrowser(t) \/ LoginPortTaken(t) \/ LoginCompletes(t)
    \/ LoginRefused(t) \/ LoginStray(t) \/ Assign(t)
OtherFlows(t) ==
    \/ DeviceCode(t) \/ PollGranted(t) \/ PollPending(t) \/ PollRefused(t)
    \/ DirectGranted(t) \/ DirectRefused(t)

Step(t) == Call(t) \/ Refresh(t) \/ Login(t) \/ OtherFlows(t)

Next ==
    \/ \E t \in Thread : Step(t)
    \/ \E g \in Grant : Expire(g)
    \/ Tick
    \/ Restart

Spec == Init /\ [][Next]_vars

(* Every thread is scheduled, and whoever sits before the browser answers. *)
FairSpec == Spec /\ \A t \in Thread : WF_vars(Step(t))

-----------------------------------------------------------------------------
(* "Because this needs to open a port on localhost and may be called from a
   multithreaded context (e.g. pyflyte register), this call may block multiple
   threads" (auth_client.py 349-351): a thread that needs a login while another
   one is under way waits for it, instead of failing on the bound port. *)
LoginsWait ==
    \A t, u \in Thread :
        At(u, "browser") /\ At(t, "login") => lock[client] # NoThread

(* "this call may block multiple threads and return a cached result for up to
   60 seconds" (auth_client.py 351-352): however many threads find their token
   rejected, the user logs in at most once in that time. *)
LoginsSpaced ==
    \A i \in 1..(Len(logins) - 1) : logins[i] + ttl < logins[i + 1]

(* What a later process finds in the keyring is worth having: at no moment,
   not even between the writes, does the keyring hold an access token that is
   newer than its refresh token, whose refresh token may have been used up
   (keyring.py 32-53, 70-81). Holds for one thread and a token endpoint that
   always returns a refresh token. *)
KeyringRefreshable == keyring.at # 0 => keyring.rt >= keyring.at

(* Every call comes back, with an answer or with an exception, provided nobody
   strays to another page of the callback server. *)
CallsEnd == \A t \in Thread : <>(pc[t] \in {"done", "failed"})

=============================================================================
