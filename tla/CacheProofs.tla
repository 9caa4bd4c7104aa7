---------------------------- MODULE CacheProofs ----------------------------
(***************************************************************************)
(* Proofs about RedisLock, for any clients, resources, leases, pool sizes  *)
(* and bounds; and about Limiter, for any callers, burst, rate, expiry and *)
(* bounds.                                                                 *)
(***************************************************************************)
EXTENDS RedisLock, Limiter, WellFoundedInduction, TLAPS

-----------------------------------------------------------------------------
(* The distributed lock. *)


(* A new token is one that no key and no other client has.                 *)
LEMMA FreshToken ==
    ASSUME FreshTokens # {}
    PROVE  /\ NextSID \in Tokens /\ NextSID # None
           /\ \A c \in Clients : token[c] # NextSID
           /\ \A r \in Resources : store[r] # NextSID
<1>1. NextSID \in FreshTokens
  BY DEF NextSID
<1> QED
  BY <1>1, LockAssumption DEF FreshTokens

(* Nobody holds or waits at first.                                         *)
LEMMA InitIInv == Init => IInv
<1> SUFFICES ASSUME Init PROVE IInv
  OBVIOUS
<1> USE DEF Init
<1>1. /\ store \in [Resources -> Tokens \cup {None}] /\ res \in [Clients -> Resources \cup {None}]
      /\ token \in [Clients -> Tokens \cup {None}]
  OBVIOUS
<1>2. ttl \in [Resources -> 0 .. ExpSecond] /\ wait \in [Clients -> 0 .. TrySecond]
  BY LockAssumption
<1>3. queue \in [Clients -> Seq(Resources)] /\ conns \in [Clients -> SUBSET ConnNames]
  OBVIOUS
<1>4. pc \in [Clients -> PCs]
  BY DEF PCs
<1>5. /\ spin \in [Clients -> BOOLEAN] /\ broken \in [Clients -> BOOLEAN]
      /\ expired \in [Clients -> BOOLEAN] /\ unheard \in [Clients -> BOOLEAN]
  BY Zenon
<1>6. TypeOK
  BY <1>1, <1>2, <1>3, <1>4, <1>5 DEF TypeOK
<1>7. ResSet /\ HolderOwns /\ TokensDiffer /\ Notified
  BY DEF ResSet, HolderOwns, TokensDiffer, Notified, HoldPCs
<1>8. ConnsReturned /\ SubFollows
  BY DEF ConnsReturned, SubFollows, HoldPCs
<1> QED
  BY <1>6, <1>7, <1>8 DEF IInv

(* The tokens of two clients still differ when one of them is forgotten.   *)
LEMMA ForgetToken ==
    ASSUME IInv, NEW c \in Clients, token' = [token EXCEPT ![c] = None]
    PROVE  TokensDiffer'
  BY Zenon DEF IInv, TypeOK, TokensDiffer

(* A call that returns, with its SET applied or not.                       *)
LEMMA ReturnPreserves ==
    ASSUME IInv, NEW c \in Clients, Return(c), errors' \in Nat,
           store' \in [Resources -> Tokens \cup {None}],
           ttl' \in [Resources -> 0 .. ExpSecond],
           \A r \in Resources : store[r] = None \/ store'[r] = store[r]
    PROVE  IInv'
<1>1. TypeOK'
  <2>1. /\ res' \in [Clients -> Resources \cup {None}]
        /\ token' \in [Clients -> Tokens \cup {None}]
        /\ pc' \in [Clients -> PCs]
    BY DEF Return, Goto, IInv, TypeOK, PCs
  <2>2. queue' \in [Clients -> Seq(Resources)] /\ conns' \in [Clients -> SUBSET ConnNames]
    BY DEF Return, IInv, TypeOK
  <2>3. /\ spin' \in [Clients -> BOOLEAN] /\ broken' \in [Clients -> BOOLEAN]
        /\ expired' \in [Clients -> BOOLEAN] /\ unheard' \in [Clients -> BOOLEAN]
    BY DEF Return, IInv, TypeOK
  <2>4. wait' \in [Clients -> 0 .. TrySecond]
    BY LockAssumption DEF Return, IInv, TypeOK
  <2> QED
    BY <2>1, <2>2, <2>3, <2>4 DEF TypeOK
<1>2. ResSet' /\ HolderOwns'
  BY DEF Return, Goto, IInv, TypeOK, ResSet, HolderOwns, HoldPCs
<1>3. TokensDiffer'
  BY ForgetToken DEF Return
<1>4. ConnsReturned' /\ SubFollows'
  BY DEF Return, Goto, IInv, TypeOK, ConnsReturned, SubFollows, HoldPCs
<1>5. Notified'
  BY DEF Return, Goto, IInv, TypeOK, ResSet, Notified, Announced
<1> QED
  BY <1>1, <1>2, <1>3, <1>4, <1>5 DEF IInv

(* A spinning client that did not get the lock, its SET applied or not.    *)
LEMMA SpinPreserves ==
    ASSUME IInv, NEW c \in Clients, pc[c] \in {"set", "retry"}, errors' \in Nat,
           NEW b \in BOOLEAN, NEW u \in BOOLEAN,
           Goto(c, IF pc[c] = "set" THEN "subscribe" ELSE "receive"),
           wait' = [wait EXCEPT ![c] = IF pc[c] = "set" THEN 0 ELSE TrySecond],
           token' = [token EXCEPT ![c] = None],
           broken' = [broken EXCEPT ![c] = b],
           unheard' = [unheard EXCEPT ![c] = u],
           UNCHANGED <<spin, res, conns, queue, expired>>,
           store' \in [Resources -> Tokens \cup {None}],
           ttl' \in [Resources -> 0 .. ExpSecond],
           \A r \in Resources : store[r] = None \/ store'[r] = store[r],
           u \/ store'[res[c]] # None
    PROVE  IInv'
<1>1. TypeOK'
  <2>1. token' \in [Clients -> Tokens \cup {None}] /\ pc' \in [Clients -> PCs]
    BY DEF Goto, IInv, TypeOK, PCs, WaitPCs
  <2>2. broken' \in [Clients -> BOOLEAN] /\ unheard' \in [Clients -> BOOLEAN]
    BY Zenon DEF IInv, TypeOK
  <2>3. wait' \in [Clients -> 0 .. TrySecond]
    BY LockAssumption DEF IInv, TypeOK
  <2> QED
    BY <2>1, <2>2, <2>3 DEF IInv, TypeOK
<1>2. ResSet' /\ HolderOwns'
  BY DEF Goto, IInv, TypeOK, ResSet, HolderOwns, HoldPCs
<1>3. TokensDiffer'
  BY ForgetToken
<1>4. ConnsReturned' /\ SubFollows'
  BY DEF Goto, IInv, TypeOK, ConnsReturned, SubFollows, HoldPCs
<1>5. Notified'
  <2> SUFFICES ASSUME NEW d \in Clients, pc'[d] \in {"subscribe", "receive"},
                      store'[res[d]] = None
               PROVE  Announced(d)' \/ unheard'[d]
    BY DEF Notified
  <2>1. CASE d = c
    BY <2>1 DEF IInv, TypeOK
  <2>2. CASE d # c
    <3>1. pc[d] = pc'[d] /\ unheard'[d] = unheard[d] /\ res[d] \in Resources
      BY <2>2 DEF Goto, IInv, TypeOK, ResSet
    <3>2. store[res[d]] = None
      BY <3>1
    <3> QED
      BY <3>1, <3>2 DEF IInv, Notified, Announced
  <2> QED
    BY <2>1, <2>2
<1> QED
  BY <1>1, <1>2, <1>3, <1>4, <1>5 DEF IInv

(* An applied SET leaves the types of the store alone, and changes only a  *)
(* key that was absent.                                                    *)
LEMMA StoreTokenTypes ==
    ASSUME IInv, NEW c \in Clients, res[c] \in Resources, store[res[c]] = None,
           FreshTokens # {}, StoreToken(c, NextSID)
    PROVE  /\ store' \in [Resources -> Tokens \cup {None}]
           /\ ttl' \in [Resources -> 0 .. ExpSecond]
           /\ \A r \in Resources : store[r] = None \/ store'[r] = store[r]
           /\ store'[res[c]] = NextSID
<1>1. NextSID \in Tokens
  BY FreshToken
<1>2. store \in [Resources -> Tokens \cup {None}] /\ ttl \in [Resources -> 0 .. ExpSecond]
  BY DEF IInv, TypeOK
<1>3. ExpSecond \in 0 .. ExpSecond
  BY LockAssumption
<1> QED
  BY <1>1, <1>2, <1>3 DEF StoreToken

(* The step Begin preserves the invariant.                                 *)
LEMMA BeginPreserves ==
    ASSUME IInv, NEW c \in Clients, NEW r \in Resources, NEW s \in BOOLEAN, Begin(c, r, s)
    PROVE  IInv'
<1>1. TypeOK'
  BY LockAssumption DEF Begin, Goto, IInv, TypeOK, PCs, WaitPCs, HoldPCs, ConnNames
<1>2. ResSet'
  BY LockAssumption DEF Begin, Goto, IInv, TypeOK, ResSet, PCs, WaitPCs, HoldPCs, ConnNames
<1>3. HolderOwns'
  BY LockAssumption DEF Begin, Goto, IInv, TypeOK, ResSet, HolderOwns, PCs, WaitPCs, HoldPCs,
     ConnNames
<1>4. TokensDiffer'
  BY LockAssumption DEF Begin, Goto, IInv, TypeOK, TokensDiffer, PCs, WaitPCs, HoldPCs, ConnNames
<1>5. ConnsReturned'
  BY LockAssumption DEF Begin, Goto, IInv, TypeOK, ConnsReturned, PCs, WaitPCs, HoldPCs, ConnNames
<1>6. SubFollows'
  BY LockAssumption DEF Begin, Goto, IInv, TypeOK, SubFollows, PCs, WaitPCs, HoldPCs, ConnNames
<1>7. Notified'
  BY LockAssumption DEF Begin, Goto, IInv, TypeOK, ResSet, Notified, SubFollows, Announced, PCs,
     WaitPCs, HoldPCs, ConnNames
<1> QED
  BY <1>1, <1>2, <1>3, <1>4, <1>5, <1>6, <1>7 DEF IInv

(* The step SetOK preserves the invariant.                                 *)
LEMMA SetOKPreserves ==
    ASSUME IInv, NEW c \in Clients, SetOK(c)
    PROVE  IInv'
<1> DEFINE k == NextSID
<1>a. /\ k \in Tokens /\ k # None
      /\ \A d \in Clients : token[d] # k
  BY FreshToken DEF SetOK
<1>b. /\ pc[c] \in {"set", "retry"} /\ res[c] \in Resources /\ store[res[c]] = None
  BY DEF SetOK, IInv, ResSet
<1>c. /\ store' \in [Resources -> Tokens \cup {None}]
      /\ ttl' \in [Resources -> 0 .. ExpSecond]
      /\ \A r \in Resources : store[r] = None \/ store'[r] = store[r]
      /\ store'[res[c]] = k
  BY <1>b, StoreTokenTypes DEF SetOK
<1>d. /\ token' = [token EXCEPT ![c] = k] /\ pc' = [pc EXCEPT ![c] = "call"]
      /\ conns' = [conns EXCEPT ![c] = {"lock"}] /\ queue' = [queue EXCEPT ![c] = <<>>]
      /\ wait' = [wait EXCEPT ![c] = 0] /\ expired' = [expired EXCEPT ![c] = FALSE]
      /\ unheard' = [unheard EXCEPT ![c] = FALSE] /\ UNCHANGED <<spin, res, broken, errors>>
  BY DEF SetOK, Goto
<1> HIDE DEF k
<1>1. TypeOK'
  <2>1. token' \in [Clients -> Tokens \cup {None}] /\ pc' \in [Clients -> PCs]
    BY <1>a, <1>d DEF IInv, TypeOK, PCs, HoldPCs
  <2>2. queue' \in [Clients -> Seq(Resources)] /\ conns' \in [Clients -> SUBSET ConnNames]
    BY <1>d DEF IInv, TypeOK, ConnNames
  <2>3. expired' \in [Clients -> BOOLEAN] /\ unheard' \in [Clients -> BOOLEAN]
    BY <1>d DEF IInv, TypeOK
  <2>4. wait' \in [Clients -> 0 .. TrySecond]
    BY <1>d, LockAssumption DEF IInv, TypeOK
  <2> QED
    BY <1>c, <1>d, <2>1, <2>2, <2>3, <2>4 DEF IInv, TypeOK
<1>2. ResSet'
  BY <1>b, <1>d DEF IInv, TypeOK, ResSet
<1>3. HolderOwns'
  <2> SUFFICES ASSUME NEW d \in Clients, pc'[d] \in HoldPCs
               PROVE  token'[d] # None /\ (~expired'[d] => store'[res[d]] = token'[d])
    BY <1>d DEF HolderOwns
  <2>1. CASE d = c
    BY <2>1, <1>a, <1>c, <1>d DEF IInv, TypeOK
  <2>2. CASE d # c
    <3>1. /\ pc[d] \in HoldPCs /\ token'[d] = token[d] /\ expired'[d] = expired[d]
          /\ res[d] \in Resources
      BY <2>2, <1>d DEF IInv, TypeOK, ResSet, HoldPCs
    <3> QED
      BY <3>1, <1>c DEF IInv, HolderOwns
  <2> QED
    BY <2>1, <2>2
<1>4. TokensDiffer'
  BY <1>a, <1>d, Zenon DEF IInv, TypeOK, TokensDiffer
<1>5. ConnsReturned'
  BY <1>b, <1>d DEF IInv, TypeOK, ConnsReturned, HoldPCs
<1>6. SubFollows'
  BY <1>b, <1>d DEF IInv, TypeOK, SubFollows
<1>7. Notified'
  BY <1>b, <1>c, <1>d DEF IInv, TypeOK, ResSet, Notified, Announced
<1> QED
  BY <1>1, <1>2, <1>3, <1>4, <1>5, <1>6, <1>7 DEF IInv

(* The step SetPending preserves the invariant.                            *)
LEMMA SetPendingPreserves ==
    ASSUME IInv, NEW c \in Clients, SetPending(c)
    PROVE  IInv'
<1>1. /\ pc[c] \in {"set", "retry"} /\ res[c] \in Resources /\ store[res[c]] # None
      /\ UNCHANGED <<store, ttl, errors>> /\ errors \in Nat
      /\ store' \in [Resources -> Tokens \cup {None}] /\ ttl' \in [Resources -> 0 .. ExpSecond]
      /\ spin[c] \in BOOLEAN /\ broken \in [Clients -> BOOLEAN]
  BY DEF SetPending, IInv, ResSet, TypeOK
<1>2. CASE ~spin[c]
  BY <1>1, <1>2, ReturnPreserves DEF SetPending, NotAcquired
<1>3. CASE spin[c] /\ ~Return(c)
  <2>1. broken' = [broken EXCEPT ![c] = broken[c]] /\ broken[c] \in BOOLEAN
    BY <1>1, <1>3 DEF SetPending
  <2> QED
    BY <1>1, <1>3, <2>1, SpinPreserves DEF SetPending, NotAcquired
<1>4. CASE Return(c)
  BY <1>1, <1>4, ReturnPreserves
<1> QED
  BY <1>1, <1>2, <1>3, <1>4

(* The step SetError preserves the invariant.                              *)
LEMMA SetErrorPreserves ==
    ASSUME IInv, NEW c \in Clients, SetError(c)
    PROVE  IInv'
<1>1. /\ pc[c] \in {"set", "retry"} /\ res[c] \in Resources /\ errors' \in Nat
      /\ spin[c] \in BOOLEAN
  BY LockAssumption DEF SetError, IInv, ResSet, TypeOK
<1>2. /\ store' \in [Resources -> Tokens \cup {None}]
      /\ ttl' \in [Resources -> 0 .. ExpSecond]
      /\ \A r \in Resources : store[r] = None \/ store'[r] = store[r]
  <2>1. CASE UNCHANGED <<store, ttl>>
    BY <2>1 DEF IInv, TypeOK
  <2>2. CASE store[res[c]] = None /\ FreshTokens # {} /\ StoreToken(c, NextSID)
    BY <1>1, <2>2, StoreTokenTypes
  <2> QED
    BY <2>1, <2>2 DEF SetError
<1>3. CASE Return(c)
  BY <1>1, <1>2, <1>3, ReturnPreserves
<1>4. CASE ~Return(c)
  BY <1>1, <1>2, <1>4, SpinPreserves DEF SetError, NotAcquired
<1> QED
  BY <1>3, <1>4

(* The step Subscribe preserves the invariant.                             *)
LEMMA SubscribePreserves ==
    ASSUME IInv, NEW c \in Clients, Subscribe(c)
    PROVE  IInv'
<1>1. pc[c] = "subscribe" /\ UNCHANGED <<store, ttl>> /\ errors' \in Nat
  BY LockAssumption DEF Subscribe, IInv, TypeOK
<1>2. store \in [Resources -> Tokens \cup {None}] /\ ttl \in [Resources -> 0 .. ExpSecond]
  BY DEF IInv, TypeOK
<1>3. CASE Return(c)
  BY <1>1, <1>2, <1>3, ReturnPreserves
<1>4. CASE ~Return(c)
  <2>1. /\ conns' = [conns EXCEPT ![c] = @ \cup {"sub"}]
        /\ wait' = [wait EXCEPT ![c] = TrySecond]
        /\ pc' = [pc EXCEPT ![c] = "receive"]
        /\ UNCHANGED <<queue, spin, res, token, broken, expired, unheard, errors>>
    BY <1>4 DEF Subscribe, Goto
  <2>2. TypeOK'
    <3>1. pc' \in [Clients -> PCs] /\ conns' \in [Clients -> SUBSET ConnNames]
      BY <2>1 DEF IInv, TypeOK, PCs, WaitPCs, ConnNames
    <3>2. wait' \in [Clients -> 0 .. TrySecond]
      BY <2>1, LockAssumption DEF IInv, TypeOK
    <3> QED
      BY <1>1, <2>1, <3>1, <3>2 DEF IInv, TypeOK
  <2>3. ResSet' /\ HolderOwns' /\ TokensDiffer'
    BY <1>1, <2>1 DEF IInv, TypeOK, ResSet, HolderOwns, TokensDiffer, HoldPCs
  <2>4. ConnsReturned' /\ SubFollows'
    <3> SUFFICES ASSUME NEW d \in Clients
                 PROVE  /\ pc'[d] = "idle" => conns'[d] = {}
                        /\ pc'[d] \in HoldPCs => conns'[d] = {"lock"}
                        /\ "sub" \in conns'[d] <=> pc'[d] \in {"receive", "retry"}
                        /\ "sub" \notin conns'[d] => queue'[d] = <<>>
      BY DEF ConnsReturned, SubFollows
    <3>1. CASE d = c
      BY <2>1, <3>1 DEF IInv, TypeOK, HoldPCs
    <3>2. CASE d # c
      BY <2>1, <3>2 DEF IInv, TypeOK, ConnsReturned, SubFollows
    <3> QED
      BY <3>1, <3>2
  <2>5. Notified'
    BY <1>1, <2>1 DEF IInv, TypeOK, Notified, Announced
  <2> QED
    BY <2>2, <2>3, <2>4, <2>5 DEF IInv
<1> QED
  BY <1>3, <1>4

(* The step Receive preserves the invariant.                               *)
LEMMA ReceivePreserves ==
    ASSUME IInv, NEW c \in Clients, Receive(c)
    PROVE  IInv'
<1>a. /\ queue[c] \in Seq(Resources) /\ queue[c] # <<>> /\ pc[c] = "receive"
      /\ queue' = [queue EXCEPT ![c] = Tail(@)] /\ res[c] \in Resources
      /\ UNCHANGED <<store, ttl, spin, res, token, conns, broken, errors, expired, unheard>>
  BY DEF Receive, local, IInv, TypeOK, ResSet
<1>b. /\ Tail(queue[c]) \in Seq(Resources)
      /\ Len(queue[c]) \in Nat /\ Len(queue[c]) >= 1
      /\ Len(Tail(queue[c])) = Len(queue[c]) - 1
      /\ \A n \in 1 .. Len(queue[c]) - 1 : Tail(queue[c])[n] = queue[c][n + 1]
      /\ Head(queue[c]) = queue[c][1]
  BY <1>a
<1>1. TypeOK'
  <2>1. queue' \in [Clients -> Seq(Resources)]
    BY <1>a, <1>b DEF IInv, TypeOK
  <2>2. pc' \in [Clients -> PCs]
    BY DEF Receive, Goto, IInv, TypeOK, PCs, WaitPCs
  <2>3. wait' \in [Clients -> 0 .. TrySecond]
    BY LockAssumption DEF Receive, IInv, TypeOK
  <2> QED
    BY <1>a, <2>1, <2>2, <2>3 DEF IInv, TypeOK
<1>2. ResSet'
  BY LockAssumption DEF Receive, Goto, local, IInv, TypeOK, ResSet, PCs, WaitPCs, HoldPCs, ConnNames
<1>3. HolderOwns'
  BY LockAssumption DEF Receive, Goto, local, IInv, TypeOK, ResSet, HolderOwns, PCs, WaitPCs,
     HoldPCs, ConnNames
<1>4. TokensDiffer'
  BY LockAssumption DEF Receive, Goto, local, IInv, TypeOK, TokensDiffer, PCs, WaitPCs, HoldPCs,
     ConnNames
<1>5. ConnsReturned'
  BY LockAssumption, ZenonT(120) DEF Receive, Goto, local, IInv, TypeOK, ConnsReturned, PCs, WaitPCs,
     HoldPCs, ConnNames
<1>6. SubFollows'
  BY LockAssumption DEF Receive, Goto, local, IInv, TypeOK, SubFollows, PCs, WaitPCs, HoldPCs,
     ConnNames
<1>7. Notified'
  <2> SUFFICES ASSUME NEW d \in Clients, pc'[d] \in {"subscribe", "receive"},
                      store[res[d]] = None, ~unheard[d]
               PROVE  \E n \in 1 .. Len(queue'[d]) : queue'[d][n] = res[d]
    BY <1>a DEF Notified, Announced
  <2>1. CASE d # c
    BY <2>1, <1>a DEF Receive, Goto, IInv, TypeOK, Notified, Announced
  <2>2. CASE d = c
    <3>1. Head(queue[c]) # res[c]
      BY <2>2 DEF Receive, Goto, IInv, TypeOK
    <3>2. Announced(c)
      BY <1>a, <2>2 DEF IInv, Notified
    <3>3. PICK n \in 1 .. Len(queue[c]) : queue[c][n] = res[c]
      BY <3>2 DEF Announced
    <3>4. n # 1
      BY <3>1, <3>3, <1>b
    <3>5. n - 1 \in 1 .. Len(queue[c]) - 1 /\ (n - 1) + 1 = n
      BY <3>4, <1>b
    <3>6. Tail(queue[c])[n - 1] = res[c]
      BY <3>3, <3>5, <1>b
    <3>7. queue'[d] = Tail(queue[c])
      BY <1>a, <2>2 DEF IInv, TypeOK
    <3> QED
      BY <1>b, <2>2, <3>5, <3>6, <3>7
  <2> QED
    BY <2>1, <2>2
<1> QED
  BY <1>1, <1>2, <1>3, <1>4, <1>5, <1>6, <1>7 DEF IInv

(* The step ReceiveTimeout preserves the invariant.                        *)
LEMMA ReceiveTimeoutPreserves ==
    ASSUME IInv, NEW c \in Clients, ReceiveTimeout(c)
    PROVE  IInv'
<1>1. TypeOK'
  BY LockAssumption DEF ReceiveTimeout, Return, Goto, IInv, TypeOK, PCs, WaitPCs, HoldPCs, ConnNames
<1>2. ResSet'
  BY LockAssumption DEF ReceiveTimeout, Return, Goto, IInv, TypeOK, ResSet, PCs, WaitPCs,
     HoldPCs, ConnNames
<1>3. HolderOwns'
  BY LockAssumption DEF ReceiveTimeout, Return, Goto, IInv, TypeOK, ResSet, HolderOwns, PCs,
     WaitPCs, HoldPCs, ConnNames
<1>4. TokensDiffer'
  BY LockAssumption DEF ReceiveTimeout, Return, Goto, IInv, TypeOK, TokensDiffer, PCs, WaitPCs,
     HoldPCs, ConnNames
<1>5. ConnsReturned'
  BY LockAssumption DEF ReceiveTimeout, Return, Goto, IInv, TypeOK, ConnsReturned, PCs, WaitPCs,
     HoldPCs, ConnNames
<1>6. SubFollows'
  BY LockAssumption DEF ReceiveTimeout, Return, Goto, IInv, TypeOK, SubFollows, PCs, WaitPCs,
     HoldPCs, ConnNames
<1>7. Notified'
  BY LockAssumption DEF ReceiveTimeout, Return, Goto, IInv, TypeOK, ResSet, Notified,
     SubFollows, Announced, PCs, WaitPCs, HoldPCs, ConnNames
<1> QED
  BY <1>1, <1>2, <1>3, <1>4, <1>5, <1>6, <1>7 DEF IInv

(* The step ReceiveError preserves the invariant.                          *)
LEMMA ReceiveErrorPreserves ==
    ASSUME IInv, NEW c \in Clients, ReceiveError(c)
    PROVE  IInv'
<1>1. TypeOK'
  BY LockAssumption DEF ReceiveError, Return, Goto, IInv, TypeOK, PCs, WaitPCs, HoldPCs, ConnNames
<1>2. ResSet'
  BY LockAssumption DEF ReceiveError, Return, Goto, IInv, TypeOK, ResSet, PCs, WaitPCs, HoldPCs,
     ConnNames
<1>3. HolderOwns'
  BY LockAssumption DEF ReceiveError, Return, Goto, IInv, TypeOK, ResSet, HolderOwns, PCs,
     WaitPCs, HoldPCs, ConnNames
<1>4. TokensDiffer'
  BY LockAssumption DEF ReceiveError, Return, Goto, IInv, TypeOK, TokensDiffer, PCs, WaitPCs,
     HoldPCs, ConnNames
<1>5. ConnsReturned'
  BY LockAssumption DEF ReceiveError, Return, Goto, IInv, TypeOK, ConnsReturned, PCs, WaitPCs,
     HoldPCs, ConnNames
<1>6. SubFollows'
  BY LockAssumption DEF ReceiveError, Return, Goto, IInv, TypeOK, SubFollows, PCs, WaitPCs,
     HoldPCs, ConnNames
<1>7. Notified'
  BY LockAssumption DEF ReceiveError, Return, Goto, IInv, TypeOK, ResSet, Notified, SubFollows,
     Announced, PCs, WaitPCs, HoldPCs, ConnNames
<1> QED
  BY <1>1, <1>2, <1>3, <1>4, <1>5, <1>6, <1>7 DEF IInv

(* The step CallReturns preserves the invariant.                           *)
LEMMA CallReturnsPreserves ==
    ASSUME IInv, NEW c \in Clients, CallReturns(c)
    PROVE  IInv'
<1>1. TypeOK'
  BY LockAssumption DEF CallReturns, Goto, local, IInv, TypeOK, PCs, WaitPCs, HoldPCs, ConnNames
<1>2. ResSet'
  BY LockAssumption DEF CallReturns, Goto, local, IInv, TypeOK, ResSet, PCs, WaitPCs, HoldPCs,
     ConnNames
<1>3. HolderOwns'
  BY LockAssumption DEF CallReturns, Goto, local, IInv, TypeOK, ResSet, HolderOwns, PCs,
     WaitPCs, HoldPCs, ConnNames
<1>4. TokensDiffer'
  BY LockAssumption DEF CallReturns, Goto, local, IInv, TypeOK, TokensDiffer, PCs, WaitPCs,
     HoldPCs, ConnNames
<1>5. ConnsReturned'
  BY LockAssumption DEF CallReturns, Goto, local, IInv, TypeOK, ConnsReturned, PCs, WaitPCs,
     HoldPCs, ConnNames
<1>6. SubFollows'
  BY LockAssumption DEF CallReturns, Goto, local, IInv, TypeOK, SubFollows, PCs, WaitPCs,
     HoldPCs, ConnNames
<1>7. Notified'
  BY LockAssumption DEF CallReturns, Goto, local, IInv, TypeOK, ResSet, Notified, SubFollows,
     Announced, PCs, WaitPCs, HoldPCs, ConnNames
<1> QED
  BY <1>1, <1>2, <1>3, <1>4, <1>5, <1>6, <1>7 DEF IInv

(* The step CallPanics preserves the invariant.                            *)
LEMMA CallPanicsPreserves ==
    ASSUME IInv, NEW c \in Clients, CallPanics(c)
    PROVE  IInv'
<1>1. TypeOK'
  BY LockAssumption DEF CallPanics, Goto, local, IInv, TypeOK, PCs, WaitPCs, HoldPCs, ConnNames
<1>2. ResSet'
  BY LockAssumption DEF CallPanics, Goto, local, IInv, TypeOK, ResSet, PCs, WaitPCs, HoldPCs,
     ConnNames
<1>3. HolderOwns'
  BY LockAssumption DEF CallPanics, Goto, local, IInv, TypeOK, ResSet, HolderOwns, PCs, WaitPCs,
     HoldPCs, ConnNames
<1>4. TokensDiffer'
  BY LockAssumption DEF CallPanics, Goto, local, IInv, TypeOK, TokensDiffer, PCs, WaitPCs,
     HoldPCs, ConnNames
<1>5. ConnsReturned'
  BY LockAssumption DEF CallPanics, Goto, local, IInv, TypeOK, ConnsReturned, PCs, WaitPCs,
     HoldPCs, ConnNames
<1>6. SubFollows'
  BY LockAssumption DEF CallPanics, Goto, local, IInv, TypeOK, SubFollows, PCs, WaitPCs,
     HoldPCs, ConnNames
<1>7. Notified'
  BY LockAssumption DEF CallPanics, Goto, local, IInv, TypeOK, ResSet, Notified, SubFollows,
     Announced, PCs, WaitPCs, HoldPCs, ConnNames
<1> QED
  BY <1>1, <1>2, <1>3, <1>4, <1>5, <1>6, <1>7 DEF IInv

(* The step Unlock preserves the invariant.                                *)
LEMMA UnlockPreserves ==
    ASSUME IInv, NEW c \in Clients, Unlock(c)
    PROVE  IInv'
<1> DEFINE announced == IF spin[c] THEN Subscribers \ {c} ELSE {}
<1>a. /\ pc[c] = "unlock" /\ res[c] \in Resources /\ token[c] # None
      /\ pc' = [pc EXCEPT ![c] = "idle"] /\ conns' = [conns EXCEPT ![c] = {}]
      /\ spin' = [spin EXCEPT ![c] = FALSE] /\ res' = [res EXCEPT ![c] = None]
      /\ token' = [token EXCEPT ![c] = None] /\ expired' = [expired EXCEPT ![c] = FALSE]
      /\ UNCHANGED <<broken, wait>> /\ errors' \in Nat
  BY LockAssumption DEF Unlock, Goto, IInv, TypeOK, ResSet, HolderOwns, HoldPCs
<1>b. \/ UNCHANGED <<store, ttl, queue, unheard>>
      \/ /\ store[res[c]] = token[c]
         /\ store' = [store EXCEPT ![res[c]] = None]
         /\ ttl' = [ttl EXCEPT ![res[c]] = 0]
         /\ queue' = [d \in Clients |-> IF d \in announced
                                        THEN Append(queue[d], res[c]) ELSE queue[d]]
         /\ unheard' = [Unheard(res[c], announced) EXCEPT ![c] = FALSE]
  BY DEF Unlock, RunUnlockScript
<1>c. \A d \in announced : d \in Clients /\ d # c /\ "sub" \in conns[d]
  BY DEF Subscribers
<1> HIDE DEF announced
<1>1. TypeOK'
  <2>1. /\ pc' \in [Clients -> PCs] /\ res' \in [Clients -> Resources \cup {None}]
        /\ token' \in [Clients -> Tokens \cup {None}]
    BY <1>a DEF IInv, TypeOK, PCs
  <2>2. conns' \in [Clients -> SUBSET ConnNames]
    BY <1>a DEF IInv, TypeOK
  <2>3. spin' \in [Clients -> BOOLEAN] /\ expired' \in [Clients -> BOOLEAN]
    BY <1>a DEF IInv, TypeOK
  <2>4. store' \in [Resources -> Tokens \cup {None}] /\ ttl' \in [Resources -> 0 .. ExpSecond]
    <3>1. 0 \in 0 .. ExpSecond
      BY LockAssumption
    <3>2. store \in [Resources -> Tokens \cup {None}] /\ ttl \in [Resources -> 0 .. ExpSecond]
      BY DEF IInv, TypeOK
    <3> QED
      BY <1>a, <1>b, <3>1, <3>2, ZenonT(120)
  <2>5. unheard' \in [Clients -> BOOLEAN]
    BY <1>b DEF IInv, TypeOK, Unheard
  <2>6. queue' \in [Clients -> Seq(Resources)]
    <3>1. queue \in [Clients -> Seq(Resources)]
      BY DEF IInv, TypeOK
    <3>2. \A d \in Clients : Append(queue[d], res[c]) \in Seq(Resources)
      BY <1>a, <3>1
    <3> QED
      BY <1>b, <3>1, <3>2, ZenonT(120)
  <2> QED
    BY <1>a, <2>1, <2>2, <2>3, <2>4, <2>5, <2>6 DEF IInv, TypeOK
<1>2. ResSet'
  BY <1>a DEF IInv, TypeOK, ResSet
<1>3. HolderOwns'
  <2> SUFFICES ASSUME NEW d \in Clients, pc'[d] \in HoldPCs
               PROVE  token'[d] # None /\ (~expired'[d] => store'[res'[d]] = token'[d])
    BY DEF HolderOwns
  <2>1. d # c
    BY <1>a DEF IInv, TypeOK, HoldPCs
  <2>2. /\ pc[d] \in HoldPCs /\ token'[d] = token[d] /\ expired'[d] = expired[d]
        /\ res'[d] = res[d] /\ res[d] \in Resources
    BY <1>a, <2>1 DEF IInv, TypeOK, ResSet, HoldPCs
  <2>3. token[d] # None /\ (~expired[d] => store[res[d]] = token[d])
    BY <2>2 DEF IInv, HolderOwns
  <2>4. token[d] # token[c]
    BY <2>1, <2>3 DEF IInv, TokensDiffer
  <2>5. ~expired[d] => store'[res[d]] = store[res[d]]
    BY <1>a, <1>b, <2>2, <2>3, <2>4 DEF IInv, TypeOK
  <2> QED
    BY <2>2, <2>3, <2>5
<1>4. TokensDiffer'
  BY <1>a, ForgetToken
<1>5. ConnsReturned'
  BY <1>a DEF IInv, TypeOK, ConnsReturned, HoldPCs
<1>6. SubFollows'
  <2> SUFFICES ASSUME NEW d \in Clients
               PROVE  /\ "sub" \in conns'[d] <=> pc'[d] \in {"receive", "retry"}
                      /\ "sub" \notin conns'[d] => queue'[d] = <<>>
    BY DEF SubFollows
  <2>1. "sub" \in conns'[d] <=> pc'[d] \in {"receive", "retry"}
    BY <1>a DEF IInv, TypeOK, SubFollows
  <2>2. "sub" \notin conns[d] => queue'[d] = <<>>
    BY <1>b, <1>c DEF IInv, TypeOK, SubFollows
  <2>3. "sub" \notin conns'[d] => "sub" \notin conns[d]
    BY <1>a DEF IInv, TypeOK, SubFollows
  <2> QED
    BY <2>1, <2>2, <2>3
<1>7. Notified'
  <2> SUFFICES ASSUME NEW d \in Clients, pc'[d] \in {"subscribe", "receive"},
                      store'[res'[d]] = None, ~unheard'[d]
               PROVE  \E n \in 1 .. Len(queue'[d]) : queue'[d][n] = res'[d]
    BY DEF Notified, Announced
  <2>1. d # c /\ pc[d] = pc'[d] /\ res'[d] = res[d] /\ res[d] \in Resources
    BY <1>a DEF IInv, TypeOK, ResSet
  <2>2. CASE UNCHANGED <<store, ttl, queue, unheard>>
    BY <2>1, <2>2 DEF IInv, Notified, Announced
  <2>3. CASE ~UNCHANGED <<store, ttl, queue, unheard>>
    <3>1. /\ store' = [store EXCEPT ![res[c]] = None]
          /\ queue'[d] = IF d \in announced THEN Append(queue[d], res[c]) ELSE queue[d]
          /\ unheard' = [Unheard(res[c], announced) EXCEPT ![c] = FALSE]
      BY <1>b, <2>3
    <3>2. ~unheard[d] /\ ~(res[d] = res[c] /\ d \notin announced)
      BY <2>1, <3>1 DEF Unheard, IInv, TypeOK, WaitPCs
    <3>3. /\ queue[d] \in Seq(Resources) /\ Len(queue[d]) \in Nat
          /\ Len(Append(queue[d], res[c])) = Len(queue[d]) + 1
          /\ Append(queue[d], res[c])[Len(queue[d]) + 1] = res[c]
          /\ \A n \in 1 .. Len(queue[d]) : Append(queue[d], res[c])[n] = queue[d][n]
      BY <1>a DEF IInv, TypeOK
    <3>4. CASE res[d] = res[c]
      <4>1. queue'[d] = Append(queue[d], res[c])
        BY <3>1, <3>2, <3>4
      <4>2. Len(queue[d]) + 1 \in 1 .. Len(queue'[d])
        BY <3>3, <4>1
      <4> QED
        BY <2>1, <3>3, <3>4, <4>1, <4>2
    <3>5. CASE res[d] # res[c]
      <4>1. store[res[d]] = None
        BY <2>1, <3>1, <3>5 DEF IInv, TypeOK
      <4>2. PICK n \in 1 .. Len(queue[d]) : queue[d][n] = res[d]
        BY <2>1, <3>2, <4>1 DEF IInv, Notified, Announced
      <4>3. n \in 1 .. Len(queue'[d]) /\ queue'[d][n] = queue[d][n]
        BY <3>1, <3>3
      <4> QED
        BY <2>1, <4>2, <4>3
    <3> QED
      BY <3>4, <3>5
  <2> QED
    BY <2>2, <2>3
<1> QED
  BY <1>1, <1>2, <1>3, <1>4, <1>5, <1>6, <1>7 DEF IInv

(* The step Tick preserves the invariant.                                  *)
LEMMA TickPreserves ==
    ASSUME IInv, Tick
    PROVE  IInv'
<1>1. TypeOK'
  BY LockAssumption DEF Tick, local, IInv, TypeOK, PCs, WaitPCs, HoldPCs, ConnNames
<1>2. ResSet'
  BY LockAssumption DEF Tick, local, IInv, TypeOK, ResSet, PCs, WaitPCs, HoldPCs, ConnNames
<1>3. HolderOwns'
  BY LockAssumption DEF Tick, local, IInv, TypeOK, ResSet, HolderOwns, PCs, WaitPCs, HoldPCs,
     ConnNames
<1>4. TokensDiffer'
  BY LockAssumption DEF Tick, local, IInv, TypeOK, TokensDiffer, PCs, WaitPCs, HoldPCs, ConnNames
<1>5. ConnsReturned'
  BY LockAssumption DEF Tick, local, IInv, TypeOK, ConnsReturned, PCs, WaitPCs, HoldPCs, ConnNames
<1>6. SubFollows'
  BY LockAssumption DEF Tick, local, IInv, TypeOK, SubFollows, PCs, WaitPCs, HoldPCs, ConnNames
<1>7. Notified'
  BY LockAssumption DEF Tick, local, IInv, TypeOK, ResSet, Notified, SubFollows, Announced, PCs,
     WaitPCs, HoldPCs, ConnNames
<1> QED
  BY <1>1, <1>2, <1>3, <1>4, <1>5, <1>6, <1>7 DEF IInv

(* Every step preserves the invariant.                                     *)
LEMMA NextIInv == IInv /\ [Next]_vars => IInv'
<1> SUFFICES ASSUME IInv, [Next]_vars PROVE IInv'
  OBVIOUS
<1>1. CASE UNCHANGED vars
  BY <1>1 DEF vars, IInv, TypeOK, ResSet, HolderOwns, TokensDiffer, ConnsReturned,
              SubFollows, Notified, Announced
<1>2. CASE Next
  BY <1>2, BeginPreserves, SetOKPreserves, SetPendingPreserves, SetErrorPreserves,
     SubscribePreserves, ReceivePreserves, ReceiveTimeoutPreserves, ReceiveErrorPreserves,
     CallReturnsPreserves, CallPanicsPreserves, UnlockPreserves, TickPreserves
     DEF Next, ClientStep
<1> QED
  BY <1>1, <1>2

(* The invariant holds throughout.                                         *)
THEOREM Invariance == Spec => []IInv
  BY InitIInv, NextIInv, PTL DEF Spec

(* Every variable keeps its type.                                          *)
THEOREM TypeCorrect == Spec => []TypeOK
  BY Invariance, PTL DEF IInv

(* Two clients run call() for one resource only if a lease has run out.    *)
THEOREM LocksExclude == Spec => []MutualExclusion
<1>1. IInv => MutualExclusion
  <2> SUFFICES ASSUME IInv, NEW c \in Clients, NEW d \in Clients, c # d,
                      pc[c] = "call", pc[d] = "call", res[c] = res[d],
                      ~expired[c], ~expired[d]
               PROVE  FALSE
    BY DEF MutualExclusion
  <2>1. /\ token[c] # None /\ store[res[c]] = token[c]
        /\ store[res[d]] = token[d]
    BY DEF IInv, HolderOwns, HoldPCs
  <2> QED
    BY <2>1 DEF IInv, TokensDiffer
<1> QED
  BY <1>1, Invariance, PTL

(* No release that was announced to a waiter is lost.                      *)
THEOREM WakeupsAreDelivered == Spec => []WakeupDelivered
<1>1. IInv => WakeupDelivered
  BY DEF IInv, Notified, WakeupDelivered, Announced
<1> QED
  BY <1>1, Invariance, PTL

(* Connections are back in the pool when the call is over.                 *)
THEOREM ConnsAreReturned == Spec => []ConnsReturned
  BY Invariance, PTL DEF IInv

(* Only the end of its lease or the client that stored the token removes a *)
(* lock.                                                                   *)
THEOREM OwnersRelease == Spec => OnlyOwnerReleases
<1> DEFINE P == \A r \in Resources :
          store[r] # None /\ store'[r] # store[r] =>
              \/ ttl[r] = 1 /\ ttl'[r] = 0
              \/ \E c \in Clients : /\ pc[c] = "unlock" /\ pc'[c] = "idle"
                                    /\ token[c] = store[r]
<1>1. ASSUME IInv, [Next]_vars PROVE [P]_vars
  <2>1. ASSUME NEW c \in Clients, Unlock(c) PROVE P
    BY <2>1, <1>1 DEF Unlock, RunUnlockScript, Goto, IInv, TypeOK
  <2>2. CASE Tick
    BY <2>2, <1>1 DEF Tick, IInv, TypeOK
  <2>3. ASSUME NEW c \in Clients, SetOK(c) \/ SetError(c) PROVE P
    BY <2>3, <1>1 DEF SetOK, SetError, StoreToken, IInv, TypeOK
  <2>4. ASSUME NEW c \in Clients,
               \/ \E r \in Resources, s \in BOOLEAN : Begin(c, r, s)
               \/ SetPending(c) \/ Subscribe(c) \/ Receive(c) \/ ReceiveTimeout(c)
               \/ ReceiveError(c) \/ CallReturns(c) \/ CallPanics(c)
        PROVE  P
    BY <2>4 DEF Begin, SetPending, Subscribe, Receive, ReceiveTimeout, ReceiveError,
                CallReturns, CallPanics
  <2> QED
    BY <2>1, <2>2, <2>3, <2>4, <1>1 DEF Next, ClientStep
<1> QED
  BY <1>1, Invariance, PTL DEF Spec, OnlyOwnerReleases

-----------------------------------------------------------------------------
(* The rate limiters. *)

(* A set that has 0 and, with k, k + 1 as far as n, has all of 0 .. n: the *)
(* induction that the lemmas about sums need.                              *)
LEMMA UpTo ==
    ASSUME NEW n \in Nat, NEW S, 0 \in S, \A k \in 0 .. n - 1 : k \in S => k + 1 \in S
    PROVE  \A k \in 0 .. n : k \in S
<1> DEFINE left == {k \in Nat : k <= n /\ k \notin S}
           R == OpToRel(<, Nat)
<1>1. SUFFICES ASSUME left # {} PROVE FALSE
  OBVIOUS
<1>2. \E x \in left : \A y \in left : ~(<<y, x>> \in R)
  BY <1>1, NatLessThanWellFounded, WFMin
<1>3. \A x, y \in Nat : <<y, x>> \in R <=> y < x
  BY DEF OpToRel
<1> HIDE DEF R
<1>4. PICK x \in left : \A y \in left : ~(<<y, x>> \in R)
  BY <1>2
<1>5. x \in Nat /\ x <= n /\ x \notin S /\ x # 0
  BY <1>4
<1>6. x - 1 \in Nat /\ x - 1 <= n - 1 /\ x - 1 \notin S
  BY <1>5
<1>7. <<x - 1, x>> \in R
  BY <1>3, <1>5, <1>6
<1> QED
  BY <1>4, <1>5, <1>6, <1>7

(* The running sums of a sequence of integers.                             *)
IsRunningSum(w, g) ==
  g \in [0 .. Len(w) -> Int] /\ g[0] = 0 /\ \A i \in 1 .. Len(w) : g[i] = g[i - 1] + w[i]

(* A sequence of integers has its running sums.                            *)
LEMMA RunningSumExists ==
    ASSUME NEW w \in Seq(Int)
    PROVE  \E g : IsRunningSum(w, g)
<1> DEFINE n == Len(w)
           Sums(k, g) == g \in [0 .. k -> Int] /\ g[0] = 0 /\ \A i \in 1 .. k : g[i] = g[i - 1] + w[i]
           S == {k \in Nat : k <= n /\ \E g : Sums(k, g)}
<1>1. n \in Nat /\ \A i \in 1 .. n : w[i] \in Int
  OBVIOUS
<1> HIDE DEF n
<1>2. 0 \in S
  <2>1. Sums(0, [i \in 0 .. 0 |-> 0])
    OBVIOUS
  <2> HIDE DEF Sums
  <2> QED
    BY <1>1, <2>1
<1>3. ASSUME NEW k \in 0 .. n - 1, k \in S PROVE k + 1 \in S
  <2>1. PICK g : Sums(k, g)
    BY <1>3
  <2> DEFINE h == [i \in 0 .. k + 1 |-> IF i = k + 1 THEN g[k] + w[k + 1] ELSE g[i]]
  <2>2. k \in Nat /\ k + 1 \in 1 .. n /\ w[k + 1] \in Int /\ g[k] \in Int
    BY <1>1, <2>1
  <2>3. h \in [0 .. k + 1 -> Int] /\ h[0] = 0
    BY <2>1, <2>2
  <2>4. ASSUME NEW i \in 1 .. k + 1 PROVE h[i] = h[i - 1] + w[i]
    <3>1. i - 1 \in 0 .. k /\ i \in 0 .. k + 1 /\ i - 1 \in 0 .. k + 1 /\ i - 1 # k + 1
      BY <2>2
    <3>2. h[i - 1] = g[i - 1]
      BY <3>1
    <3>3. CASE i = k + 1
      BY <2>2, <3>1, <3>2, <3>3
    <3>4. CASE i # k + 1
      <4>1. i \in 1 .. k
        BY <2>2, <3>4
      <4> QED
        BY <2>1, <3>1, <3>2, <3>4, <4>1
    <3> QED
      BY <3>3, <3>4
  <2> HIDE DEF h
  <2>5. Sums(k + 1, h)
    BY <2>3, <2>4
  <2> HIDE DEF Sums
  <2> QED
    BY <1>1, <2>2, <2>5
<1>4. n \in S
  <2> HIDE DEF S
  <2>1. \A k \in 0 .. n : k \in S
    BY <1>1, <1>2, <1>3, UpTo
  <2> QED
    BY <1>1, <2>1
<1>5. PICK g : Sums(n, g)
  BY <1>4
<1> QED
  BY <1>5 DEF IsRunningSum, n

(* SumOf is the last of the running sums.                                  *)
LEMMA SumIsLast ==
    ASSUME NEW w \in Seq(Int), NEW g, IsRunningSum(w, g)
    PROVE  SumOf(w) = g[Len(w)]
<1> DEFINE n == Len(w)
           Rec(f) == f = [i \in 0 .. n |-> IF i = 0 THEN 0 ELSE f[i - 1] + w[i]]
           f == CHOOSE f : Rec(f)
<1>1. n \in Nat /\ \A i \in 1 .. n : w[i] \in Int
  OBVIOUS
<1>2. SumOf(w) = f[n]
  BY DEF SumOf
<1> HIDE DEF n
<1>3. Rec(g)
  BY <1>1 DEF IsRunningSum, n
<1>4. Rec(f)
  BY <1>3
<1> HIDE DEF f
<1> DEFINE S == {k \in Nat : f[k] = g[k]}
<1>5. \A i \in 0 .. n : f[i] = IF i = 0 THEN 0 ELSE f[i - 1] + w[i]
  BY <1>4
<1>6. 0 \in S
  BY <1>1, <1>5 DEF IsRunningSum
<1>7. ASSUME NEW k \in 0 .. n - 1, k \in S PROVE k + 1 \in S
  <2>1. k + 1 \in 0 .. n /\ k + 1 \in 1 .. n /\ k + 1 # 0 /\ k + 1 - 1 = k
    BY <1>1
  <2>2. f[k + 1] = f[k] + w[k + 1] /\ g[k + 1] = g[k] + w[k + 1]
    BY <1>5, <2>1 DEF IsRunningSum, n
  <2> QED
    BY <1>7, <2>1, <2>2
<1>8. n \in S
  <2> HIDE DEF S
  <2>1. \A k \in 0 .. n : k \in S
    BY <1>1, <1>6, <1>7, UpTo
  <2> QED
    BY <1>1, <2>1
<1> QED
  BY <1>2, <1>8 DEF n

(* The sum of integers is one, and at most what c bounds it by step by     *)
(* step.                                                                   *)
LEMMA SumBound ==
    ASSUME NEW w \in Seq(Int), NEW c \in [0 .. Len(w) -> Int], c[0] >= 0,
           \A i \in 1 .. Len(w) : c[i - 1] + w[i] <= c[i]
    PROVE  SumOf(w) \in Int /\ SumOf(w) <= c[Len(w)]
<1> DEFINE n == Len(w)
<1>1. n \in Nat /\ \A i \in 1 .. n : w[i] \in Int
  OBVIOUS
<1>2. PICK g : IsRunningSum(w, g)
  BY RunningSumExists
<1>3. SumOf(w) = g[n]
  BY <1>2, SumIsLast
<1> DEFINE S == {k \in Nat : g[k] <= c[k]}
<1>4. g \in [0 .. n -> Int] /\ g[0] = 0 /\ \A i \in 1 .. n : g[i] = g[i - 1] + w[i]
  BY <1>2 DEF IsRunningSum
<1>5. c \in [0 .. n -> Int] /\ \A i \in 1 .. n : c[i - 1] + w[i] <= c[i]
  OBVIOUS
<1> HIDE DEF n
<1>6. 0 \in S
  BY <1>4
<1>7. ASSUME NEW k \in 0 .. n - 1, k \in S PROVE k + 1 \in S
  <2>1. k \in 0 .. n /\ k + 1 \in 0 .. n /\ k + 1 \in 1 .. n /\ k + 1 - 1 = k
    BY <1>1
  <2>2. g[k + 1] = g[k] + w[k + 1] /\ c[k] + w[k + 1] <= c[k + 1]
    BY <1>4, <1>5, <2>1
  <2>3. g[k] \in Int /\ c[k] \in Int /\ g[k + 1] \in Int /\ c[k + 1] \in Int /\ w[k + 1] \in Int
    BY <1>1, <1>4, <1>5, <2>1
  <2>4. g[k + 1] <= c[k + 1]
    BY <1>7, <2>2, <2>3, SMTT(90)
  <2> QED
    BY <1>1, <2>1, <2>4
<1>8. n \in S
  <2> HIDE DEF S
  <2>1. \A k \in 0 .. n : k \in S
    BY <1>1, <1>6, <1>7, UpTo
  <2> QED
    BY <1>1, <2>1
<1> QED
  BY <1>1, <1>3, <1>4, <1>8 DEF n
(* The running sums of a longer sequence are those of the shorter one, and *)
(* one more.                                                               *)
LEMMA SumAppend ==
    ASSUME NEW w \in Seq(Int), NEW x \in Int
    PROVE  SumOf(w) \in Int /\ SumOf(Append(w, x)) = SumOf(w) + x
<1> DEFINE n == Len(w)
           v == Append(w, x)
<1>1. n \in Nat /\ \A i \in 1 .. n : w[i] \in Int
  OBVIOUS
<1>2. v \in Seq(Int) /\ Len(v) = n + 1 /\ v[n + 1] = x /\ \A i \in 1 .. n : v[i] = w[i]
  OBVIOUS
<1>3. PICK g : IsRunningSum(w, g)
  BY RunningSumExists
<1>4. PICK h : IsRunningSum(v, h)
  BY <1>2, RunningSumExists
<1>5. SumOf(w) = g[n] /\ SumOf(v) = h[n + 1]
  BY <1>2, <1>3, <1>4, SumIsLast
<1>6. g \in [0 .. n -> Int] /\ g[0] = 0 /\ \A i \in 1 .. n : g[i] = g[i - 1] + w[i]
  BY <1>3 DEF IsRunningSum
<1>7. h \in [0 .. n + 1 -> Int] /\ h[0] = 0 /\ \A i \in 1 .. n + 1 : h[i] = h[i - 1] + v[i]
  BY <1>2, <1>4 DEF IsRunningSum
<1> DEFINE S == {k \in Nat : g[k] = h[k]}
<1> HIDE DEF n, v
<1>8. 0 \in S
  BY <1>6, <1>7
<1>9. ASSUME NEW k \in 0 .. n - 1, k \in S PROVE k + 1 \in S
  <2>1. k + 1 \in 1 .. n /\ k + 1 \in 1 .. n + 1 /\ k + 1 - 1 = k /\ k + 1 \in Nat
    BY <1>1
  <2>2. g[k + 1] = g[k] + w[k + 1] /\ h[k + 1] = h[k] + w[k + 1]
    BY <1>2, <1>6, <1>7, <2>1
  <2> QED
    BY <1>9, <2>1, <2>2
<1>10. n \in S
  <2> HIDE DEF S
  <2>1. \A k \in 0 .. n : k \in S
    BY <1>1, <1>8, <1>9, UpTo
  <2> QED
    BY <1>1, <2>1
<1>11. n + 1 \in 1 .. n + 1 /\ n + 1 - 1 = n /\ n \in 0 .. n
  BY <1>1
<1>12. h[n + 1] = g[n] + x /\ g[n] \in Int
  BY <1>2, <1>6, <1>7, <1>10, <1>11
<1> QED
  BY <1>5, <1>12 DEF v

(* A sum of integers that are not positive is not positive.                *)
LEMMA SumNotPositive ==
    ASSUME NEW w \in Seq(Int), \A i \in 1 .. Len(w) : w[i] <= 0
    PROVE  SumOf(w) \in Int /\ SumOf(w) <= 0
<1> DEFINE c == [i \in 0 .. Len(w) |-> 0]
<1>1. Len(w) \in Nat /\ \A i \in 1 .. Len(w) : w[i] \in Int
  OBVIOUS
<1>2. c \in [0 .. Len(w) -> Int] /\ c[0] >= 0 /\ c[Len(w)] = 0
  BY <1>1
<1>3. \A i \in 1 .. Len(w) : c[i - 1] + w[i] <= c[i]
  BY <1>1
<1> HIDE DEF c
<1>4. SumOf(w) \in Int /\ SumOf(w) <= c[Len(w)]
  BY <1>2, <1>3, SumBound
<1> QED
  BY <1>2, <1>4

(* A sum of smaller integers is smaller, also by the d that one of them is *)
(* smaller by.                                                             *)
LEMMA SumSmaller ==
    ASSUME NEW w \in Seq(Int), NEW v \in Seq(Int), Len(v) = Len(w),
           \A i \in 1 .. Len(w) : w[i] <= v[i]
    PROVE  /\ SumOf(w) \in Int /\ SumOf(v) \in Int /\ SumOf(w) <= SumOf(v)
           /\ \A m \in 1 .. Len(w), d \in Int :
                w[m] + d <= v[m] => SumOf(w) + d <= SumOf(v)
<1> DEFINE n == Len(w)
<1>1. n \in Nat /\ n \in 0 .. n /\ \A i \in 1 .. n : w[i] \in Int /\ v[i] \in Int
  OBVIOUS
<1>2. PICK g : IsRunningSum(v, g)
  BY RunningSumExists
<1>3. SumOf(v) = g[n]
  BY <1>2, SumIsLast
<1>4. g \in [0 .. n -> Int] /\ g[0] = 0 /\ \A i \in 1 .. n : g[i] = g[i - 1] + v[i]
  BY <1>2 DEF IsRunningSum
<1>5. ASSUME NEW i \in 1 .. n PROVE g[i - 1] \in Int /\ g[i] \in Int /\ w[i] <= v[i]
  <2>1. i \in 0 .. n /\ i - 1 \in 0 .. n
    BY <1>1
  <2> QED
    BY <1>4, <2>1
<1>6. ASSUME NEW i \in 1 .. n PROVE g[i - 1] + w[i] <= g[i]
  <2>1. g[i] = g[i - 1] + v[i] /\ w[i] \in Int /\ v[i] \in Int
    BY <1>1, <1>4
  <2>2. g[i - 1] \in Int /\ w[i] <= v[i]
    BY <1>5
  <2> HIDE DEF n
  <2> QED
    BY <2>1, <2>2
<1>7. SumOf(w) \in Int /\ SumOf(w) <= g[n]
  <2>1. g \in [0 .. Len(w) -> Int] /\ g[0] >= 0
    BY <1>4
  <2>2. \A i \in 1 .. Len(w) : g[i - 1] + w[i] <= g[i]
    BY <1>6
  <2> QED
    BY <2>1, <2>2, SumBound
<1>8. g[n] \in Int
  BY <1>1, <1>4
<1>9. ASSUME NEW m \in 1 .. n, NEW d \in Int, w[m] + d <= v[m]
      PROVE  SumOf(w) + d <= SumOf(v)
  <2> DEFINE c == [i \in 0 .. n |-> IF i < m THEN g[i] ELSE g[i] - d]
  <2>1. m \in Nat /\ 0 < m /\ m <= n
    BY <1>1
  <2>2. c \in [0 .. n -> Int] /\ c[0] >= 0 /\ c[n] = g[n] - d
    BY <1>1, <1>4, <1>8, <2>1
  <2>3. ASSUME NEW i \in 1 .. n PROVE c[i - 1] + w[i] <= c[i]
    <3>1. i \in 0 .. n /\ i - 1 \in 0 .. n /\ i - 1 < i /\ i \in Int
      BY <1>1
    <3>2. /\ g[i] = g[i - 1] + v[i] /\ w[i] <= v[i]
          /\ g[i - 1] \in Int /\ g[i] \in Int /\ w[i] \in Int /\ v[i] \in Int
      BY <1>1, <1>4, <1>5
    <3>3. c[i] = (IF i < m THEN g[i] ELSE g[i] - d)
      BY <3>1
    <3>4. c[i - 1] = (IF i - 1 < m THEN g[i - 1] ELSE g[i - 1] - d)
      BY <3>1
    <3> HIDE DEF c, n
    <3>5. ASSUME NEW x \in Int, NEW y \in Int, NEW a \in Int, NEW b \in Int, y = x + b, a <= b
          PROVE  x + a <= y
      BY <3>5
    <3>6. ASSUME NEW x \in Int, NEW y \in Int, NEW a \in Int, NEW b \in Int, y = x + b, a <= b
          PROVE  x - d + a <= y - d
      BY <3>6
    <3>7. CASE i = m
      <4>1. c[i] = g[i] - d /\ c[i - 1] = g[i - 1] /\ w[i] + d <= v[i]
        BY <1>9, <2>1, <3>1, <3>3, <3>4, <3>7
      <4>2. ASSUME NEW x \in Int, NEW y \in Int, NEW a \in Int, NEW b \in Int, y = x + b, a + d <= b
            PROVE  x + a <= y - d
        BY <4>2
      <4> QED
        BY <3>2, <4>1, <4>2, Zenon
    <3>8. CASE i < m
      <4>1. c[i] = g[i] /\ c[i - 1] = g[i - 1]
        BY <2>1, <3>1, <3>3, <3>4, <3>8
      <4> QED
        BY <3>2, <3>5, <4>1, Zenon
    <3>9. CASE m < i
      <4>1. c[i] = g[i] - d /\ c[i - 1] = g[i - 1] - d
        BY <2>1, <3>1, <3>3, <3>4, <3>9
      <4> QED
        BY <3>2, <3>6, <4>1, Zenon
    <3> QED
      BY <2>1, <3>1, <3>7, <3>8, <3>9
  <2> HIDE DEF c
  <2>4. SumOf(w) <= c[n]
    BY <2>2, <2>3, SumBound
  <2> QED
    BY <1>3, <1>7, <1>8, <2>2, <2>4
<1> QED
  BY <1>3, <1>7, <1>8, <1>9

(* The weights that Granted and CostSince sum are integers, and the sums   *)
(* too.                                                                    *)
LEMMA WeightsTyped ==
    ASSUME granted \in Seq(Events), NEW l \in Nat, NEW s \in Int, NEW t \in Int
    PROVE  /\ Len(granted) \in Nat /\ DOMAIN granted = 1 .. Len(granted)
           /\ \A i \in 1 .. Len(granted) :
                granted[i] \in Events /\ granted[i].lim \in Nat /\ granted[i].at \in Int
                /\ granted[i].parts \in Nat
           /\ Parts(l, s, t) \in Seq(Int) /\ Len(Parts(l, s, t)) = Len(granted)
           /\ Costs(l, s) \in Seq(Int) /\ Len(Costs(l, s)) = Len(granted)
           /\ Granted(l, s, t) \in Int /\ CostSince(l, s) \in Int
<1> DEFINE n == Len(granted)
<1>1. n \in Nat /\ DOMAIN granted = 1 .. n /\ \A i \in 1 .. n : granted[i] \in Events
  OBVIOUS
<1>2. \A i \in 1 .. n : granted[i].lim \in Nat /\ granted[i].at \in Int /\ granted[i].parts \in Nat
  BY <1>1 DEF Events
<1>3. TokenParts \in Nat \ {0}
  BY LimiterAssumption
<1> HIDE DEF n
<1>4. Parts(l, s, t) \in [1 .. n -> Int]
  BY <1>2 DEF Parts, n
<1>5. Costs(l, s) \in [1 .. n -> Int]
  BY <1>2, <1>3 DEF Costs, n
<1>6. \A f \in [1 .. n -> Int] : f \in Seq(Int) /\ Len(f) = n
  BY <1>1
<1>7. Granted(l, s, t) \in Int
  BY <1>4, <1>6, SumAppend DEF Granted
<1>8. CostSince(l, s) \in Int
  BY <1>5, <1>6, SumAppend DEF CostSince
<1> QED
  BY <1>1, <1>2, <1>4, <1>5, <1>6, <1>7, <1>8 DEF n

(* An event granted adds what it has to the stretches that it lies in.     *)
LEMMA EventAdded ==
    ASSUME granted \in Seq(Events), NEW e \in Events, granted' = Append(granted, e),
           NEW l \in Nat, NEW s \in Int, NEW t \in Int
    PROVE  /\ Granted(l, s, t) \in Int /\ Granted(l, s, t)' \in Int
           /\ Granted(l, s, t)' <= Granted(l, s, t) + e.parts
           /\ Granted(l, s, t)' # Granted(l, s, t) => e.lim = l /\ s <= e.at /\ e.at <= t
           /\ CostSince(l, s) \in Int /\ CostSince(l, s)' \in Int /\ CostSince(l, s) <= CostSince(l, s)'
           /\ CostSince(l, s)' # CostSince(l, s) => e.lim = l /\ s <= e.at
           /\ e.lim = l /\ s <= e.at /\ l # 0 => CostSince(l, s)' = CostSince(l, s) + e.parts
           /\ e.lim = l /\ s <= e.at /\ l = 0 => CostSince(l, s)' = CostSince(l, s) + (2 * TokenParts - 1)
<1> DEFINE n == Len(granted)
           x == IF e.lim = l /\ s <= e.at /\ e.at <= t THEN e.parts ELSE 0
           y == IF e.lim # l \/ e.at < s THEN 0 ELSE IF l = 0 THEN 2 * TokenParts - 1 ELSE e.parts
<1>1. /\ n \in Nat /\ Parts(l, s, t) \in Seq(Int) /\ Len(Parts(l, s, t)) = n
      /\ Costs(l, s) \in Seq(Int) /\ Len(Costs(l, s)) = n
  BY WeightsTyped
<1>2. /\ e.lim \in Nat /\ e.at \in Int /\ e.parts \in Nat
      /\ 2 * TokenParts - 1 \in Int /\ 2 * TokenParts - 1 >= 0
  BY LimiterAssumption DEF Events
<1>3. /\ x \in Int /\ x <= e.parts /\ ((e.lim # l \/ e.at < s \/ t < e.at) => x = 0)
      /\ y \in Int /\ y >= 0 /\ (e.lim # l \/ e.at < s => y = 0) /\ (e.lim = l /\ s <= e.at /\ l # 0 => y = e.parts)
      /\ (e.lim = l /\ s <= e.at /\ l = 0 => y = 2 * TokenParts - 1)
  BY <1>2
<1>4. Len(granted') = n + 1 /\ granted'[n + 1] = e /\ \A i \in 1 .. n : granted'[i] = granted[i]
  OBVIOUS
<1>5. Parts(l, s, t)' = Append(Parts(l, s, t), x)
  <2>1. Parts(l, s, t)' = [i \in 1 .. n + 1 |-> IF granted'[i].lim = l /\ s <= granted'[i].at /\ granted'[i].at <= t
                                                THEN granted'[i].parts ELSE 0]
    BY <1>4 DEF Parts
  <2>2. \A i \in 1 .. n : Parts(l, s, t)[i] = IF granted[i].lim = l /\ s <= granted[i].at /\ granted[i].at <= t
                                              THEN granted[i].parts ELSE 0
    BY DEF Parts
  <2>3. Append(Parts(l, s, t), x) = [i \in 1 .. n + 1 |-> IF i = n + 1 THEN x ELSE Parts(l, s, t)[i]]
    BY <1>1, <1>3
  <2> HIDE DEF n
  <2>4. \A i \in 1 .. n + 1 : i = n + 1 \/ i \in 1 .. n
    BY <1>1
  <2> QED
    BY <1>4, <2>1, <2>2, <2>3, <2>4
<1>6. Costs(l, s)' = Append(Costs(l, s), y)
  <2>1. Costs(l, s)' = [i \in 1 .. n + 1 |-> IF granted'[i].lim # l \/ granted'[i].at < s THEN 0
                                             ELSE IF l = 0 THEN 2 * TokenParts - 1 ELSE granted'[i].parts]
    BY <1>4 DEF Costs
  <2>2. \A i \in 1 .. n : Costs(l, s)[i] = IF granted[i].lim # l \/ granted[i].at < s THEN 0
                                           ELSE IF l = 0 THEN 2 * TokenParts - 1 ELSE granted[i].parts
    BY DEF Costs
  <2>3. Append(Costs(l, s), y) = [i \in 1 .. n + 1 |-> IF i = n + 1 THEN y ELSE Costs(l, s)[i]]
    BY <1>1, <1>3
  <2> HIDE DEF n
  <2>4. \A i \in 1 .. n + 1 : i = n + 1 \/ i \in 1 .. n
    BY <1>1
  <2> QED
    BY <1>4, <2>1, <2>2, <2>3, <2>4
<1> HIDE DEF n, x, y
<1>7. Granted(l, s, t)' = SumOf(Append(Parts(l, s, t), x))
  BY <1>5 DEF Granted
<1>8. CostSince(l, s)' = SumOf(Append(Costs(l, s), y))
  BY <1>6 DEF CostSince
<1>9. Granted(l, s, t)' = Granted(l, s, t) + x /\ Granted(l, s, t) \in Int
  BY <1>1, <1>3, <1>7, SumAppend DEF Granted
<1>10. CostSince(l, s)' = CostSince(l, s) + y /\ CostSince(l, s) \in Int
  BY <1>1, <1>3, <1>8, SumAppend DEF CostSince
<1>11. /\ Granted(l, s, t)' \in Int /\ Granted(l, s, t)' <= Granted(l, s, t) + e.parts
       /\ x = 0 => Granted(l, s, t)' = Granted(l, s, t)
  BY <1>2, <1>3, <1>9
<1>12. CostSince(l, s)' \in Int /\ CostSince(l, s) <= CostSince(l, s)'
  BY <1>3, <1>10
<1>13. Granted(l, s, t)' # Granted(l, s, t) => e.lim = l /\ s <= e.at /\ e.at <= t
  BY <1>2, <1>3, <1>11
<1>14. CostSince(l, s)' # CostSince(l, s) => e.lim = l /\ s <= e.at
  BY <1>2, <1>3, <1>10, SMTT(90)
<1> QED
  BY <1>3, <1>9, <1>10, <1>11, <1>12, <1>13, <1>14

(* Its time is a grant time from then on, and the others remain.           *)
LEMMA TimeAdded ==
    ASSUME granted \in Seq(Events), NEW e \in Events, granted' = Append(granted, e), e.parts > 0,
           NEW l \in Nat
    PROVE  GrantTimes(l)' = GrantTimes(l) \cup (IF e.lim = l THEN {e.at} ELSE {})
<1> DEFINE n == Len(granted)
<1>1. n \in Nat /\ DOMAIN granted = 1 .. n
  OBVIOUS
<1>2. DOMAIN granted' = 1 .. n + 1 /\ granted'[n + 1] = e /\ \A i \in 1 .. n : granted'[i] = granted[i]
  OBVIOUS
<1> HIDE DEF n
<1>3. \A i : i \in 1 .. n + 1 <=> i = n + 1 \/ i \in 1 .. n
  BY <1>1
<1> QED
  BY <1>1, <1>2, <1>3 DEF GrantTimes

(* Grant times are integers; without one from s on nothing is granted.     *)
LEMMA NothingGranted ==
    ASSUME granted \in Seq(Events), NEW l \in Nat, NEW s \in Int, NEW t \in Int
    PROVE  /\ GrantTimes(l) \subseteq Int
           /\ ~(\E a \in GrantTimes(l) : s <= a) => Granted(l, s, t) <= 0
<1>1. /\ DOMAIN granted = 1 .. Len(granted) /\ Parts(l, s, t) \in Seq(Int)
      /\ Len(Parts(l, s, t)) = Len(granted) /\ Granted(l, s, t) \in Int
  BY WeightsTyped
<1>2. \A i \in 1 .. Len(granted) :
         granted[i].lim \in Nat /\ granted[i].at \in Int /\ granted[i].parts \in Nat
  BY WeightsTyped
<1>3. GrantTimes(l) \subseteq Int
  BY <1>1, <1>2 DEF GrantTimes
<1>4. ASSUME ~(\E a \in GrantTimes(l) : s <= a) PROVE Granted(l, s, t) <= 0
  <2>1. ASSUME NEW i \in 1 .. Len(granted) PROVE Parts(l, s, t)[i] <= 0
    <3>1. granted[i].lim = l /\ granted[i].parts > 0 => granted[i].at \in GrantTimes(l)
      BY <1>1 DEF GrantTimes
    <3>2. granted[i].lim = l /\ s <= granted[i].at => granted[i].parts = 0
      BY <1>2, <1>4, <3>1
    <3> QED
      BY <3>2 DEF Parts
  <2> QED
    BY <1>1, <2>1, SumNotPositive DEF Granted
<1> QED
  BY <1>3, <1>4

(* A cancelled event is taken from every stretch that it lay in, and adds  *)
(* no grant time.                                                          *)
LEMMA EventCancelled ==
    ASSUME granted \in Seq(Events), NEW m \in DOMAIN granted, granted[m].parts > 0,
           granted' = [granted EXCEPT ![m].parts = 0],
           NEW l \in Nat, NEW s \in Int, NEW t \in Int
    PROVE  /\ granted' \in Seq(Events) /\ DOMAIN granted' = DOMAIN granted
           /\ Len(granted') = Len(granted)
           /\ \A i \in DOMAIN granted : granted'[i].lim = granted[i].lim /\ granted'[i].at = granted[i].at
           /\ \A i \in DOMAIN granted \ {m} : granted'[i] = granted[i]
           /\ granted'[m].parts = 0
           /\ GrantTimes(l)' \subseteq GrantTimes(l)
           /\ Granted(l, s, t)' \in Int /\ Granted(l, s, t)' <= Granted(l, s, t)
           /\ l = granted[m].lim =>
                \A u, v \in Int : u <= s /\ u <= granted[m].at /\ t <= v /\ granted[m].at <= v =>
                  Granted(l, s, t)' + granted[m].parts <= Granted(l, u, v)
<1> DEFINE n == Len(granted)
<1>1. n \in Nat /\ DOMAIN granted = 1 .. n
  BY WeightsTyped
<1>2. \A i \in 1 .. n : granted[i] \in Events /\ granted[i].lim \in Nat /\ granted[i].at \in Int
                        /\ granted[i].parts \in Nat
  BY WeightsTyped
<1>3. DOMAIN granted' = 1 .. n /\ \A i \in 1 .. n \ {m} : granted'[i] = granted[i]
  BY <1>1
<1>4. granted'[m] = [granted[m] EXCEPT !.parts = 0]
  BY <1>1
<1>5. granted'[m].lim = granted[m].lim /\ granted'[m].at = granted[m].at /\ granted'[m].parts = 0
      /\ granted'[m] \in Events
  BY <1>1, <1>2, <1>4 DEF Events
<1>6. \A i \in 1 .. n : granted'[i] \in Events /\ granted'[i].lim = granted[i].lim /\ granted'[i].at = granted[i].at
                        /\ granted'[i].parts \in Nat /\ granted'[i].parts <= granted[i].parts
  BY <1>1, <1>2, <1>3, <1>5
<1>7. granted' \in Seq(Events) /\ Len(granted') = n
  <2>1. granted' = [i \in 1 .. n |-> granted'[i]]
    BY <1>1, <1>3
  <2>2. granted' \in [1 .. n -> Events]
    BY <1>6, <2>1
  <2> HIDE DEF n
  <2> QED
    BY <1>1, <2>2
<1>8. GrantTimes(l)' \subseteq GrantTimes(l)
  BY <1>1, <1>2, <1>3, <1>6 DEF GrantTimes
<1>9. Parts(l, s, t) \in Seq(Int) /\ Len(Parts(l, s, t)) = n /\ Granted(l, s, t) \in Int
  BY WeightsTyped
<1>10. Parts(l, s, t)' = [i \in 1 .. n |-> IF granted[i].lim = l /\ s <= granted[i].at /\ granted[i].at <= t
                                           THEN granted'[i].parts ELSE 0]
  BY <1>6, <1>7 DEF Parts
<1> DEFINE w == Parts(l, s, t)'
<1>11. w \in Seq(Int) /\ Len(w) = n
  <2>1. w \in [1 .. n -> Int]
    BY <1>6, <1>10
  <2> HIDE DEF w, n
  <2> QED
    BY <1>1, <2>1
<1>12. Granted(l, s, t)' = SumOf(w)
  BY DEF Granted
<1>13. ASSUME NEW u \in Int, NEW v \in Int, u <= s, t <= v
       PROVE  /\ Parts(l, u, v) \in Seq(Int) /\ Len(Parts(l, u, v)) = n
              /\ \A i \in 1 .. n : w[i] <= Parts(l, u, v)[i]
              /\ SumOf(w) \in Int /\ SumOf(w) <= Granted(l, u, v)
              /\ \A i \in 1 .. n, d \in Int : w[i] + d <= Parts(l, u, v)[i] => SumOf(w) + d <= Granted(l, u, v)
  <2>1. Parts(l, u, v) \in Seq(Int) /\ Len(Parts(l, u, v)) = n
    BY WeightsTyped
  <2>2. ASSUME NEW i \in 1 .. n PROVE w[i] <= Parts(l, u, v)[i]
    <3>1. w[i] = IF granted[i].lim = l /\ s <= granted[i].at /\ granted[i].at <= t
                 THEN granted'[i].parts ELSE 0
      BY <1>10
    <3>2. Parts(l, u, v)[i] = IF granted[i].lim = l /\ u <= granted[i].at /\ granted[i].at <= v
                              THEN granted[i].parts ELSE 0
      BY DEF Parts
    <3>3. granted'[i].parts \in Nat /\ granted'[i].parts <= granted[i].parts /\ granted[i].parts \in Nat
          /\ granted[i].at \in Int
      BY <1>2, <1>6
    <3> HIDE DEF w, n
    <3> QED
      BY <1>13, <3>1, <3>2, <3>3
  <2> HIDE DEF w, n
  <2> QED
    BY <1>11, <2>1, <2>2, SumSmaller DEF Granted
<1>14. SumOf(w) \in Int /\ SumOf(w) <= Granted(l, s, t)
  BY <1>13
<1>15. ASSUME l = granted[m].lim, NEW u \in Int, NEW v \in Int,
              u <= s, u <= granted[m].at, t <= v, granted[m].at <= v
       PROVE  SumOf(w) + granted[m].parts <= Granted(l, u, v)
  <2>1. w[m] = 0
    BY <1>1, <1>5, <1>10
  <2>2. Parts(l, u, v)[m] = granted[m].parts
    BY <1>1, <1>15 DEF Parts
  <2>3. granted[m].parts \in Int /\ m \in 1 .. n
    BY <1>1, <1>2
  <2> HIDE DEF w, n
  <2>4. w[m] + granted[m].parts <= Parts(l, u, v)[m]
    BY <2>1, <2>2, <2>3
  <2> QED
    BY <1>13, <1>15, <2>3, <2>4
<1> QED
  BY <1>1, <1>3, <1>5, <1>6, <1>7, <1>8, <1>12, <1>14, <1>15

(* Of the grant times of a limiter that granted something one is latest.   *)
LEMMA LatestExists ==
    ASSUME granted \in Seq(Events), NEW l \in Nat, GrantTimes(l) # {}
    PROVE  \E a \in GrantTimes(l) : \A b \in GrantTimes(l) : b <= a
<1> DEFINE n == Len(granted)
           Mine(i) == granted[i].lim = l /\ granted[i].parts > 0
           Latest(k, i) == i \in 1 .. k /\ Mine(i) /\ \A j \in 1 .. k : Mine(j) => granted[j].at <= granted[i].at
           S == {k \in Nat : (\A j \in 1 .. k : ~Mine(j)) \/ \E i : Latest(k, i)}
<1>1. n \in Nat /\ DOMAIN granted = 1 .. n /\ \A i \in 1 .. n : granted[i].at \in Int
  BY WeightsTyped, 0 \in Int, 0 \in Nat
<1>2. GrantTimes(l) = {granted[i].at : i \in {j \in 1 .. n : Mine(j)}}
  BY <1>1 DEF GrantTimes
<1> HIDE DEF n, Mine
<1>3. 0 \in S
  OBVIOUS
<1>4. ASSUME NEW k \in 0 .. n - 1, k \in S PROVE k + 1 \in S
  <2>1. k \in Nat /\ k + 1 \in 1 .. n /\ k + 1 \in 1 .. k + 1
    BY <1>1
  <2>2. \A j \in 1 .. k + 1 : j = k + 1 \/ j \in 1 .. k
    BY <2>1
  <2>3. \A j \in 1 .. k : j \in 1 .. k + 1 /\ j \in 1 .. n /\ granted[j].at \in Int
    BY <1>1, <2>1
  <2>4. CASE \A j \in 1 .. k : ~Mine(j)
    <3>1. CASE Mine(k + 1)
      <4>1. granted[k + 1].at <= granted[k + 1].at
        BY <1>1, <2>1
      <4>2. Latest(k + 1, k + 1)
        BY <2>1, <2>2, <2>4, <3>1, <4>1
      <4> HIDE DEF Latest
      <4> QED
        BY <2>1, <4>2
    <3>2. CASE ~Mine(k + 1)
      BY <2>1, <2>2, <2>4, <3>2
    <3> QED
      BY <3>1, <3>2
  <2>5. CASE \E i : Latest(k, i)
    <3>1. PICK i : Latest(k, i)
      BY <2>5
    <3>2. granted[i].at \in Int /\ i \in 1 .. k + 1 /\ granted[k + 1].at \in Int
      BY <1>1, <2>1, <2>3, <3>1
    <3>3. CASE Mine(k + 1) /\ granted[k + 1].at > granted[i].at
      <4>1. ASSUME NEW j \in 1 .. k + 1, Mine(j) PROVE granted[j].at <= granted[k + 1].at
        BY <2>2, <2>3, <3>1, <3>2, <3>3, <4>1
      <4>2. Latest(k + 1, k + 1)
        BY <2>1, <3>3, <4>1
      <4> HIDE DEF Latest
      <4> QED
        BY <2>1, <4>2
    <3>4. CASE ~(Mine(k + 1) /\ granted[k + 1].at > granted[i].at)
      <4>1. ASSUME NEW j \in 1 .. k + 1, Mine(j) PROVE granted[j].at <= granted[i].at
        <5>1. CASE j = k + 1
          BY <3>2, <3>4, <4>1, <5>1
        <5>2. CASE j \in 1 .. k
          BY <3>1, <4>1, <5>2
        <5> QED
          BY <2>2, <5>1, <5>2
      <4>2. Latest(k + 1, i)
        BY <3>1, <3>2, <4>1
      <4> HIDE DEF Latest
      <4> QED
        BY <2>1, <4>2
    <3> QED
      BY <3>3, <3>4
  <2> QED
    BY <1>4, <2>4, <2>5
<1>5. n \in S
  <2> HIDE DEF S
  <2>1. \A k \in 0 .. n : k \in S
    BY <1>1, <1>3, <1>4, UpTo
  <2> QED
    BY <1>1, <2>1
<1>6. ~(\A j \in 1 .. n : ~Mine(j))
  BY <1>2
<1>7. PICK i : Latest(n, i)
  BY <1>5, <1>6
<1> QED
  BY <1>2, <1>7

(* Tokens in parts.                                                        *)
LEMMA PartsOfTokens ==
    /\ Full \in Nat /\ Full >= TokenParts /\ TokenParts \in Nat /\ TokenParts > 0 /\ Burst \in Nat /\ Burst > 0
    /\ \A n \in Nat : n * TokenParts \in Nat
    /\ \A n \in Nat : n > 0 => n * TokenParts > 0
    /\ \A n \in Nat : n <= Burst => n * TokenParts <= Full
<1>1. TokenParts \in Nat /\ TokenParts > 0 /\ Burst \in Nat /\ Burst > 0
  BY LimiterAssumption
<1>2. \A n, k \in Nat : n * k \in Nat
  OBVIOUS
<1>3. ASSUME NEW n \in Nat, NEW m \in Nat, NEW k \in Nat, n <= m PROVE n * k <= m * k
  <2>1. m - n \in Nat /\ (m - n) * k \in Nat
    BY <1>2, <1>3
  <2>2. m * k = n * k + (m - n) * k
    OBVIOUS
  <2>3. n * k \in Nat /\ m * k \in Nat
    BY <1>2
  <2> QED
    BY <2>1, <2>2, <2>3
<1>4. 1 * TokenParts = TokenParts
  BY <1>1
<1>5. \A n \in Nat : n > 0 => TokenParts <= n * TokenParts
  BY <1>1, <1>3, <1>4
<1> QED
  BY <1>1, <1>2, <1>3, <1>5 DEF Full

(* What advance leaves: the time of a bucket is set back to that of a      *)
(* stale call, and the tokens are what came since it was empty, at most    *)
(* the burst.                                                              *)
LEMMA AdvanceFills ==
    ASSUME NEW lim \in Bucket, lim.tokens <= Full, NEW t \in Int
    PROVE  LET adv == advance(lim, t)
               late == Later(lim.last - t, 0)
           IN  /\ late \in Nat /\ adv.last = lim.last - late /\ adv.last <= t
               /\ adv.last \in Int /\ adv.tokens \in Int
               /\ \/ adv.tokens = t - (Emptied(lim) - late) /\ adv.tokens <= Full
                  \/ adv.tokens = Full /\ Emptied(lim) - late <= t - Full
               /\ SetBack(lim, t) = lim.back + late
<1>1. lim.tokens \in Int /\ lim.last \in Int /\ lim.back \in Nat /\ Full \in Nat
  BY PartsOfTokens DEF Bucket
<1> QED
  BY <1>1 DEF advance, Least, Later, SetBack, Emptied

(* What reserveN does to a bucket: it is empty later by what it grants, or *)
(* had been full; the events it grants come when it is empty at the        *)
(* earliest; and it refuses what would come later than is allowed.         *)
Takes(lim, t, n, max, r, late, p) ==
  /\ r.ok \in BOOLEAN /\ r.act \in Int /\ r.n = n
  /\ r.lim \in Bucket /\ r.lim.tokens <= Full
  /\ r.lim.made = lim.made /\ r.lim.cancels = lim.cancels
  /\ r.lim.excess = lim.excess /\ r.lim.back = lim.back + late /\ late \in Nat
  /\ r.ok => /\ n <= Burst /\ t <= r.act /\ r.act <= t + max /\ r.lim.last = t
             /\ Emptied(r.lim) <= r.act
             /\ Emptied(lim) - late + p <= Emptied(r.lim)
             /\ r.act + p <= Full + Emptied(r.lim)
             /\ \/ Emptied(r.lim) = Emptied(lim) - late + p
                \/ Emptied(r.lim) = t - Full + p /\ r.act = t
  /\ ~r.ok => /\ Emptied(r.lim) = Emptied(lim) - late /\ r.lim.last = lim.last - late
              /\ n <= Burst => Emptied(lim) - late + p > t + max

(* reserveN does so.                                                       *)
LEMMA ReserveTakes ==
    ASSUME NEW lim \in Bucket, lim.tokens <= Full, NEW t \in Nat, NEW n \in Nat, n > 0,
           NEW max \in Nat, option # "infinite",
           NEW r, r = reserveN(lim, t, n, max), NEW late, late = Later(lim.last - t, 0),
           NEW p, p = n * TokenParts
    PROVE  Takes(lim, t, n, max, r, late, p)
<1> USE DEF Takes
<1> DEFINE adv == advance(lim, t)
           tokens == adv.tokens - p
           delay == Later(-tokens, 0)
           ok == n <= Burst /\ delay <= max
           at == t + delay
           back == SetBack(lim, t)
           last == adv.last
           took == [lim EXCEPT !.tokens = tokens, !.last = t, !.lastEvent = at, !.back = back]
           left == [lim EXCEPT !.last = last, !.back = back]
<1>1. /\ late \in Nat /\ adv.last = lim.last - late /\ adv.last <= t /\ adv.last \in Int /\ adv.tokens \in Int
      /\ \/ adv.tokens = t - (Emptied(lim) - late) /\ adv.tokens <= Full
         \/ adv.tokens = Full /\ Emptied(lim) - late <= t - Full
      /\ SetBack(lim, t) = lim.back + late
  BY AdvanceFills
<1>2. p \in Nat /\ p > 0 /\ (n <= Burst => p <= Full) /\ Full \in Nat /\ Burst \in Nat
  BY PartsOfTokens
<1>3. /\ lim.tokens \in Int /\ lim.last \in Int /\ lim.lastEvent \in Int /\ lim.made \in Nat
      /\ lim.back \in Nat /\ lim.excess \in Nat /\ lim.cancels \in Nat /\ Emptied(lim) \in Int
  BY DEF Bucket, Emptied
<1>4. /\ r = [ok |-> ok, act |-> at, n |-> n, lim |-> IF ok THEN took ELSE left]
      /\ ok \in BOOLEAN /\ back = lim.back + late /\ back \in Nat /\ last = lim.last - late /\ last \in Int
  BY <1>1, <1>3 DEF reserveN
<1> HIDE DEF adv, back, last
<1>5. tokens \in Int /\ delay \in Nat /\ delay >= -tokens /\ (delay = -tokens \/ delay = 0)
  BY <1>1, <1>2 DEF Later
<1>6. at = t + delay /\ at \in Int /\ (ok <=> n <= Burst /\ delay <= max)
  BY <1>5
<1> HIDE DEF tokens, delay, at, ok
<1>7. /\ took \in Bucket /\ took.tokens = tokens /\ took.last = t /\ took.back = lim.back + late
      /\ took.made = lim.made /\ took.cancels = lim.cancels /\ took.excess = lim.excess
  <2>1. tokens \in Int /\ at \in Int /\ back \in Nat /\ t \in Int
    BY <1>4, <1>5, <1>6
  <2>2. /\ took \in Bucket /\ took.tokens = tokens /\ took.last = t /\ took.back = back
        /\ took.made = lim.made /\ took.cancels = lim.cancels /\ took.excess = lim.excess
    BY <2>1 DEF Bucket
  <2> QED
    BY <1>4, <2>2
<1>8. /\ left \in Bucket /\ left.tokens = lim.tokens /\ left.last = lim.last - late
      /\ left.back = lim.back + late
      /\ left.made = lim.made /\ left.cancels = lim.cancels /\ left.excess = lim.excess
  BY <1>3, <1>4 DEF Bucket
<1> HIDE DEF took, left
<1>9. Emptied(took) = t - tokens /\ Emptied(left) = Emptied(lim) - late
  BY <1>1, <1>3, <1>7, <1>8 DEF Emptied
<1>10. tokens = adv.tokens - p
  BY DEF tokens
<1>11. CASE ok
  <2>1. r.ok = TRUE /\ r.act = at /\ r.n = n /\ r.lim = took
    BY <1>4, <1>11
  <2>2. tokens <= Full /\ n <= Burst /\ delay <= max /\ p <= Full
    BY <1>1, <1>2, <1>10, <1>11, <1>6
  <2>3. /\ Emptied(took) <= t + delay
        /\ Emptied(lim) - late + p <= Emptied(took)
        /\ t + delay + p <= Full + Emptied(took)
    BY <1>1, <1>2, <1>3, <1>5, <1>9, <1>10, <2>2
  <2>4. \/ Emptied(took) = Emptied(lim) - late + p
        \/ Emptied(took) = t - Full + p /\ delay = 0
    <3>1. CASE adv.tokens = t - (Emptied(lim) - late)
      BY <1>1, <1>2, <1>3, <1>9, <1>10, <3>1
    <3>2. CASE adv.tokens = Full
      <4>1. tokens = Full - p /\ tokens >= 0
        BY <1>2, <1>10, <2>2, <3>2
      <4>2. delay = 0
        BY <1>5, <4>1
      <4> QED
        BY <1>2, <1>9, <4>1, <4>2
    <3> QED
      BY <1>1, <3>1, <3>2
  <2>5. at \in Int /\ t <= at /\ at <= t + max /\ (delay = 0 => at = t)
    BY <1>5, <1>6, <2>2
  <2>6. /\ Emptied(took) <= at /\ at + p <= Full + Emptied(took)
        /\ \/ Emptied(took) = Emptied(lim) - late + p
           \/ Emptied(took) = t - Full + p /\ at = t
    BY <1>6, <2>3, <2>4, <2>5
  <2> QED
    BY <1>1, <1>7, <2>1, <2>2, <2>3, <2>5, <2>6
<1>12. CASE ~ok
  <2>1. r.ok = FALSE /\ r.act = at /\ r.n = n /\ r.lim = left
    BY <1>4, <1>12
  <2>2. ASSUME n <= Burst PROVE Emptied(lim) - late + p > t + max
    <3>1. delay > max /\ p <= Full
      BY <1>2, <1>5, <1>12, <1>6, <2>2
    <3>2. -tokens > max
      BY <1>5, <3>1
    <3> QED
      BY <1>1, <1>2, <1>3, <1>5, <1>10, <3>1, <3>2
  <2>3. left.tokens <= Full
    BY <1>8
  <2> QED
    BY <1>1, <1>8, <1>9, <1>6, <2>1, <2>2, <2>3
<1> QED
  BY <1>11, <1>12

(* What CancelAt does: the bucket is late by more, and empty earlier by no *)
(* more than the parts given back; less, if later events were granted.     *)
LEMMA CancelRestores ==
    ASSUME NEW lim \in Bucket, lim.tokens <= Full, NEW r \in Reservation, r.n \in 1 .. Burst,
           NEW t \in Nat, NEW latest \in Int, r.act <= latest,
           NEW x, x = CancelAt(lim, r, t, latest), NEW p, p = r.n * TokenParts
    PROVE  /\ x \in Bucket /\ x.tokens <= Full /\ x.made = lim.made /\ x.cancels = lim.cancels
           /\ lim.back <= x.back /\ lim.excess <= x.excess
           /\ \/ x = lim
              \/ Emptied(lim) + lim.back + lim.excess - p + (latest - r.act)
                   <= Emptied(x) + x.back + x.excess
<1> DEFINE adv == advance(lim, t)
           late == Later(lim.last - t, 0)
           restore == p - (lim.lastEvent - r.act)
           tokens == Least(adv.tokens + restore, Full)
           prevEvent == r.act - p
           event == IF r.act = lim.lastEvent /\ prevEvent >= t THEN prevEvent ELSE lim.lastEvent
           missed == Later(latest - lim.lastEvent, 0)
           back == SetBack(lim, t)
           excess == lim.excess + missed
           y == [lim EXCEPT !.tokens = tokens, !.last = t, !.lastEvent = event, !.back = back,
                            !.excess = excess]
<1>1. /\ late \in Nat /\ adv.last = lim.last - late /\ adv.last <= t /\ adv.last \in Int /\ adv.tokens \in Int
      /\ \/ adv.tokens = t - (Emptied(lim) - late) /\ adv.tokens <= Full
         \/ adv.tokens = Full /\ Emptied(lim) - late <= t - Full
      /\ SetBack(lim, t) = lim.back + late
  BY AdvanceFills
<1>2. p \in Nat /\ p > 0 /\ p <= Full /\ Full \in Nat /\ r.act \in Int
  BY PartsOfTokens DEF Reservation
<1>3. /\ lim.tokens \in Int /\ lim.last \in Int /\ lim.lastEvent \in Int /\ lim.made \in Nat
      /\ lim.back \in Nat /\ lim.excess \in Nat /\ lim.cancels \in Nat /\ Emptied(lim) \in Int
  BY DEF Bucket, Emptied
<1>4. x = IF r.act < t \/ restore <= 0 THEN lim ELSE y
  BY DEF CancelAt
<1>5. CASE x = lim
  BY <1>3, <1>5
<1>6. CASE x = y /\ restore > 0
  <2> HIDE DEF adv, late
  <2>1. restore \in Int /\ event \in Int /\ missed \in Nat /\ missed >= latest - lim.lastEvent
        /\ restore = p - (lim.lastEvent - r.act)
    BY <1>2, <1>3 DEF Later
  <2> HIDE DEF restore, event, missed
  <2>2. tokens \in Int /\ tokens <= Full /\ tokens <= adv.tokens + restore
    BY <1>1, <1>2, <2>1 DEF Least
  <2> HIDE DEF tokens
  <2>3. /\ y \in Bucket /\ y.tokens = tokens /\ y.last = t /\ y.back = lim.back + late
        /\ y.excess = lim.excess + missed /\ y.made = lim.made /\ y.cancels = lim.cancels
    <3>1. /\ back \in Nat /\ back = lim.back + late
          /\ excess \in Nat /\ excess = lim.excess + missed
      BY <1>1, <1>3, <2>1
    <3> HIDE DEF back, excess
    <3>2. tokens \in Int /\ event \in Int /\ back \in Nat /\ excess \in Nat /\ t \in Int
      BY <2>1, <2>2, <3>1
    <3>3. /\ y \in Bucket /\ y.tokens = tokens /\ y.last = t /\ y.back = back
          /\ y.excess = excess /\ y.made = lim.made /\ y.cancels = lim.cancels
      BY <3>2 DEF Bucket
    <3> QED
      BY <3>1, <3>3
  <2> HIDE DEF y
  <2>4. Emptied(y) = t - tokens
    BY <2>3 DEF Emptied
  <2>5. adv.tokens <= t - (Emptied(lim) - late)
    BY <1>1, <1>2, <1>3
  <2>6. Emptied(lim) + lim.back + lim.excess - p + (latest - r.act)
          <= Emptied(y) + y.back + y.excess
    BY <1>1, <1>2, <1>3, <2>1, <2>2, <2>3, <2>4, <2>5
  <2>7. lim.back <= y.back /\ lim.excess <= y.excess
    BY <1>1, <1>3, <2>1, <2>3
  <2> QED
    BY <1>6, <2>2, <2>3, <2>6, <2>7
<1>7. x = lim \/ (x = y /\ restore > 0)
  <2>1. restore \in Int
    BY <1>2, <1>3
  <2> HIDE DEF restore, y
  <2> QED
    BY <1>4, <2>1
<1> QED
  BY <1>5, <1>6, <1>7

(* What limiterScript does to the hash: like reserveN, but less than a     *)
(* token of what time brings may be lost with every event.                 *)
LEMMA ScriptTakes ==
    ASSUME NEW hash, hash = <<>> \/ (hash \in Hash /\ hash.surplus < Burst), NEW t \in Nat,
           NEW answered, answered = limiterScript(hash, t)
    PROVE  /\ answered.status \in {0, 1}
           /\ answered.status = 1 =>
                /\ answered.hash \in Hash /\ answered.hash.surplus < Burst /\ EmptiedHash(answered.hash) \in Int
                /\ EmptiedHash(answered.hash) <= answered.hash.last
                /\ answered.hash.last + TokenParts <= Full + EmptiedHash(answered.hash)
                /\ hash # <<>> =>
                     /\ hash.last <= answered.hash.last /\ EmptiedHash(hash) \in Int
                     /\ EmptiedHash(hash) + TokenParts <= EmptiedHash(answered.hash)
                /\ \/ EmptiedHash(answered.hash) = answered.hash.last - Full + TokenParts
                   \/ hash # <<>> /\ EmptiedHash(answered.hash) <= EmptiedHash(hash) + 2 * TokenParts - 1
           /\ answered.status = 0 =>
                /\ answered.hash = hash /\ hash # <<>> /\ EmptiedHash(hash) = hash.last
                /\ t <= hash.last + TokenParts - 1
<1>1. /\ TokenParts \in Nat /\ TokenParts > 0 /\ Burst \in Nat /\ Burst > 0 /\ Full = Burst * TokenParts
      /\ Full \in Nat
  BY PartsOfTokens DEF Full
<1>2. \A a, b \in Int : (a + b) * TokenParts = a * TokenParts + b * TokenParts /\ a * TokenParts \in Int
  BY <1>1
<1>3. 0 * TokenParts = 0 /\ 1 * TokenParts = TokenParts /\ (-1) * TokenParts = -TokenParts
  BY <1>1
<1>4. \A a \in Nat : a * TokenParts >= 0
  BY PartsOfTokens
<1>5. CASE hash = <<>>
  <2> DEFINE new == [last |-> t + 0, surplus |-> Burst - 1]
  <2>1. answered = [status |-> 1, hash |-> new]
    BY <1>1, <1>5 DEF limiterScript
  <2>2. new \in Hash /\ new.last = t /\ new.surplus = Burst - 1
    BY <1>1 DEF Hash
  <2>3. (Burst - 1) * TokenParts = Full - TokenParts
    BY <1>1, <1>2, <1>3
  <2> HIDE DEF new
  <2>4. EmptiedHash(new) = t - Full + TokenParts /\ TokenParts <= Full
    BY <1>1, <2>2, <2>3, PartsOfTokens DEF EmptiedHash
  <2>5. answered.status = 1 /\ answered.hash = new
    BY <2>1
  <2>6. /\ new.surplus < Burst /\ EmptiedHash(new) \in Int /\ EmptiedHash(new) <= new.last
        /\ new.last + TokenParts <= Full + EmptiedHash(new)
        /\ EmptiedHash(new) = new.last - Full + TokenParts
    BY <1>1, <2>2, <2>4
  <2> QED
    BY <1>5, <2>2, <2>5, <2>6
<1>6. CASE hash # <<>>
  <2>1. hash \in Hash /\ hash.last \in Nat /\ hash.surplus \in Nat /\ hash.surplus < Burst
    BY <1>6 DEF Hash
  <2> DEFINE past == Later(t - hash.last, 0)
             add == past \div TokenParts
             surplus == Least(hash.surplus + add, Burst)
             new == [last |-> hash.last + past, surplus |-> surplus - 1]
             spent == hash.surplus * TokenParts
  <2>2. past \in Nat /\ t <= hash.last + past
    BY <2>1 DEF Later
  <2>3. answered = IF surplus > 0 THEN [status |-> 1, hash |-> new] ELSE [status |-> 0, hash |-> hash]
    BY <1>6 DEF limiterScript
  <2> HIDE DEF past
  <2>4. add \in Nat /\ add * TokenParts <= past /\ past < add * TokenParts + TokenParts
    BY <1>1, <2>2
  <2> HIDE DEF add
  <2>5. surplus \in Nat /\ (surplus = hash.surplus + add \/ surplus = Burst)
        /\ surplus <= hash.surplus + add /\ surplus <= Burst
    BY <1>1, <2>1, <2>4 DEF Least
  <2> HIDE DEF surplus
  <2>6. EmptiedHash(hash) = hash.last - spent /\ spent \in Int
    BY <1>1, <2>1 DEF EmptiedHash
  <2> HIDE DEF spent
  <2>7. CASE surplus > 0
    <3>1. new \in Hash /\ new.last = hash.last + past /\ new.surplus = surplus - 1
      BY <2>1, <2>2, <2>5, <2>7 DEF Hash
    <3>2. answered.status = 1 /\ answered.hash = new
      BY <2>3, <2>7
    <3> HIDE DEF new
    <3>3. (surplus - 1) * TokenParts = surplus * TokenParts - TokenParts /\ surplus * TokenParts \in Int
      BY <1>1, <1>2, <1>3, <2>5
    <3>4. EmptiedHash(new) = hash.last + past - surplus * TokenParts + TokenParts
      BY <1>1, <2>1, <2>2, <3>1, <3>3 DEF EmptiedHash
    <3>5. (hash.surplus + add) * TokenParts = spent + add * TokenParts
      BY <1>1, <2>1, <2>4 DEF spent
    <3>6. surplus * TokenParts <= spent + add * TokenParts
      <4>1. hash.surplus + add - surplus \in Nat
        BY <2>1, <2>4, <2>5
      <4>2. (hash.surplus + add) * TokenParts = surplus * TokenParts + (hash.surplus + add - surplus) * TokenParts
        BY <1>1, <2>1, <2>4, <2>5
      <4>3. (hash.surplus + add - surplus) * TokenParts \in Int /\ (hash.surplus + add - surplus) * TokenParts >= 0
        BY <1>2, <1>4, <4>1
      <4>4. spent + add * TokenParts \in Int
        BY <1>1, <2>4, <2>6
      <4> QED
        BY <3>3, <3>5, <4>2, <4>3, <4>4
    <3>7. surplus * TokenParts <= Full /\ surplus * TokenParts >= TokenParts
      <4>1. surplus * TokenParts <= Full
        BY <2>5, PartsOfTokens
      <4>2. surplus - 1 \in Nat /\ (surplus - 1) * TokenParts >= 0
        BY <1>4, <2>5, <2>7
      <4> QED
        BY <1>1, <3>3, <4>1, <4>2
    <3>8. add * TokenParts \in Int
      BY <1>2, <2>4
    <3>9. EmptiedHash(new) \in Int /\ EmptiedHash(new) <= new.last
          /\ new.last + TokenParts <= Full + EmptiedHash(new)
      BY <1>1, <2>1, <2>2, <3>1, <3>3, <3>4, <3>7
    <3>10. EmptiedHash(hash) + TokenParts <= EmptiedHash(new) /\ hash.last <= new.last
      BY <1>1, <2>1, <2>2, <2>4, <2>6, <3>1, <3>3, <3>4, <3>6, <3>8, SMTT(90)
    <3>11. \/ EmptiedHash(new) = new.last - Full + TokenParts
           \/ EmptiedHash(new) <= EmptiedHash(hash) + 2 * TokenParts - 1
      <4>1. CASE surplus = Burst
        BY <1>1, <2>1, <2>2, <3>1, <3>4, <4>1
      <4>2. CASE surplus = hash.surplus + add
        <5>1. surplus * TokenParts = spent + add * TokenParts
          BY <3>5, <4>2
        <5> HIDE DEF spent
        <5> QED
          BY <1>1, <2>1, <2>2, <2>4, <2>6, <3>4, <3>8, <5>1
      <4> QED
        BY <2>5, <4>1, <4>2
    <3>12. new.surplus < Burst /\ EmptiedHash(hash) \in Int
      BY <1>1, <2>1, <2>5, <2>6, <3>1
    <3> QED
      BY <1>6, <3>1, <3>2, <3>9, <3>10, <3>11, <3>12
  <2>8. CASE surplus = 0
    <3>1. hash.surplus = 0 /\ add = 0
      BY <1>1, <2>1, <2>4, <2>5, <2>8
    <3>2. spent = 0 /\ past < TokenParts
      BY <1>1, <1>3, <2>2, <2>4, <3>1 DEF spent
    <3>3. answered.status = 0 /\ answered.hash = hash
      BY <2>3, <2>8
    <3> QED
      BY <1>1, <1>6, <2>1, <2>2, <2>6, <3>2, <3>3
  <2> QED
    BY <2>5, <2>7, <2>8
<1> QED
  BY <1>5, <1>6

(* What the fields of a call, a bucket and an event are.                   *)
LEMMA CallFields ==
    ASSUME NEW me \in Call
    PROVE  /\ me.pc \in Steps /\ me.op \in Ops /\ me.lim \in Nat /\ me.n \in Nat /\ me.max \in Nat
           /\ me.t \in Nat /\ me.r \in Reservation /\ me.answer \in Answers
           /\ me.r.act \in Int /\ me.r.n \in Nat /\ me.r.event \in Nat
  BY DEF Call, Reservation

(* The fields of a bucket.                                                 *)
LEMMA BucketFields ==
    ASSUME NEW lim \in Bucket
    PROVE  /\ lim.tokens \in Int /\ lim.last \in Int /\ lim.lastEvent \in Int /\ lim.made \in Nat
           /\ lim.back \in Nat /\ lim.excess \in Nat /\ lim.cancels \in Nat /\ Emptied(lim) \in Int
  BY DEF Bucket, Emptied

(* An event, and its fields.                                               *)
LEMMA EventFields ==
    ASSUME NEW l \in Nat, NEW at \in Int, NEW n \in Nat
    PROVE  /\ Event(l, at, n) \in Events /\ Event(l, at, n).lim = l /\ Event(l, at, n).at = at
           /\ Event(l, at, n).parts = n * TokenParts
<1>1. n * TokenParts \in Nat
  BY PartsOfTokens
<1> QED
  BY <1>1 DEF Event, Events

(* What is not written to stays.                                           *)
LEMMA SameEvents ==
    ASSUME UNCHANGED granted
    PROVE  /\ \A l, s, t : Granted(l, s, t)' = Granted(l, s, t)
           /\ \A l, s : CostSince(l, s)' = CostSince(l, s)
           /\ \A l : GrantTimes(l)' = GrantTimes(l)
  BY DEF Granted, Parts, CostSince, Costs, GrantTimes, SumOf

(* A step that leaves the buckets and what they granted alone.             *)
LEMMA SameBuckets ==
    ASSUME LevelPays, StretchPays, LacksGranted, EventsInOrder, UNCHANGED <<lims, redis, granted>>
    PROVE  LevelPays' /\ StretchPays' /\ LacksGranted' /\ EventsInOrder'
<1>1. /\ \A l, s, t : Granted(l, s, t)' = Granted(l, s, t)
      /\ \A l, s : CostSince(l, s)' = CostSince(l, s)
      /\ \A l : GrantTimes(l)' = GrantTimes(l)
  BY SameEvents
<1>2. \A l : Level(l)' = Level(l) /\ Late(l)' = Late(l)
  BY DEF Level, Late, Emptied, EmptiedHash
<1>3. LevelPays'
  BY <1>1, <1>2 DEF LevelPays
<1>4. StretchPays'
  BY <1>1, <1>2 DEF StretchPays
<1>5. LacksGranted'
  BY <1>1, <1>2 DEF LacksGranted, Emptied
<1>6. EventsInOrder'
  BY DEF EventsInOrder
<1> QED
  BY <1>3, <1>4, <1>5, <1>6

(* A step that only moves one caller on keeps the invariant if the call    *)
(* stays in order, a wait was one before, and a refusal is justified.      *)
LEMMA CallMovesOn ==
    ASSUME LimiterInv, NEW c \in Callers, NEW call \in Call, caller' = [caller EXCEPT ![c] = call],
           UNCHANGED <<option, lims, cached, redis, granted>>, now' \in Nat, asks' \in Nat,
           InOrder(call), call.answer = "refused" => Justified(call),
           Waiting(call) => Waiting(caller[c]) /\ call.r = caller[c].r /\ call.lim = caller[c].lim
    PROVE  LimiterInv'
<1>1. LimiterTypeOK'
  BY DEF LimiterInv, LimiterTypeOK
<1>2. LimitersMade'
  BY DEF LimiterInv, LimitersMade
<1>3. LevelPays' /\ StretchPays' /\ LacksGranted' /\ EventsInOrder'
  BY SameBuckets DEF LimiterInv
<1>4. caller'[c] = call /\ \A d \in Callers \ {c} : caller'[d] = caller[d]
  BY DEF LimiterInv, LimiterTypeOK
<1>5. CallsInOrder /\ NoNeedlessRefusal
  BY DEF LimiterInv
<1>6. CallsInOrder'
  <2>1. Waiting(call) => HoldsEvent(call)
    BY <1>5 DEF CallsInOrder, HoldsEvent
  <2>2. ASSUME NEW d \in Callers PROVE InOrder(caller[d])'
    <3>1. InOrder(caller'[d])
      BY <1>4, <1>5 DEF CallsInOrder
    <3> QED
      BY <3>1 DEF InOrder
  <2>3. ASSUME NEW d \in Callers PROVE (Waiting(caller[d]) => HoldsEvent(caller[d]))'
    <3>1. Waiting(caller'[d]) => HoldsEvent(caller'[d])
      BY <1>4, <1>5, <2>1 DEF CallsInOrder
    <3> QED
      BY <3>1 DEF Waiting, HoldsEvent, Event
  <2>4. ASSUME NEW d \in Callers, NEW e \in Callers, d # e, Waiting(caller'[d]), Waiting(caller'[e])
        PROVE  caller'[d].r.event # caller'[e].r.event
    BY <1>4, <1>5, <2>4 DEF CallsInOrder
  <2> QED
    BY <2>2, <2>3, <2>4 DEF CallsInOrder, Waiting
<1>7. ASSUME NEW d \in Callers, caller'[d].answer = "refused" PROVE Justified(caller[d])'
  <2>1. Justified(caller'[d])
    BY <1>4, <1>5, <1>7 DEF NoNeedlessRefusal
  <2>2. /\ \A l, s : CostSince(l, s)' = CostSince(l, s)
        /\ \A l : GrantTimes(l)' = GrantTimes(l)
    BY SameEvents
  <2> QED
    BY <2>1, <2>2 DEF Justified
<1>8. NoNeedlessRefusal'
  BY <1>7 DEF NoNeedlessRefusal
<1> QED
  BY <1>1, <1>2, <1>3, <1>6, <1>8 DEF LimiterInv

(* An idle caller.                                                         *)
LEMMA IdleTyped ==
    /\ Idle \in Call /\ Idle.pc = "idle" /\ Idle.lim = 0 /\ Idle.n = 0 /\ Idle.max = 0
    /\ Idle.answer = "" /\ Idle.r = NoReservation /\ Idle.op = "" /\ Idle.t = 0
    /\ NoReservation \in Reservation
<1>1. NoReservation \in Reservation
  BY DEF NoReservation, Reservation
<1>2. "idle" \in Steps /\ "" \in Ops /\ "" \in Answers
  BY DEF Steps, Ops, Answers
<1> QED
  BY <1>1, <1>2 DEF Idle, Call

(* Nothing has been granted at first and the buckets are full.             *)
LEMMA InitLimiterInv == InitLimiter => LimiterInv
<1> SUFFICES ASSUME InitLimiter PROVE LimiterInv
  OBVIOUS
<1>1. /\ now = 0 /\ cached = [lim |-> 0, until |-> 0] /\ redis = <<>> /\ granted = <<>> /\ asks = 0
      /\ caller = [c \in Callers |-> Idle] /\ option \in Options
  BY DEF InitLimiter, Options
<1>2. Full \in Nat /\ -Full \in Int
  BY PartsOfTokens
<1> DEFINE lim == NewLimiter(0)
<1>3. /\ lim \in Bucket /\ lim.tokens = 0 /\ lim.last = -Full /\ lim.back = 0 /\ lim.excess = 0
      /\ lim.cancels = 0 /\ Emptied(lim) <= -Full
  BY <1>2 DEF NewLimiter, Bucket, Emptied
<1> HIDE DEF lim
<1>4. /\ option \in {"limiter", "infinite"} => lims = <<lim>>
      /\ option \notin {"limiter", "infinite"} => lims = <<>>
  BY DEF InitLimiter, lim
<1>5. \/ Len(lims) = 1 /\ DOMAIN lims = 1 .. 1 /\ lims[1] = lim /\ lims \in Seq(Bucket)
      \/ Len(lims) = 0 /\ DOMAIN lims = {} /\ lims \in Seq(Bucket)
  <2>1. CASE lims = <<lim>>
    BY <1>3, <2>1
  <2>2. CASE lims = <<>>
    BY <2>2
  <2> QED
    BY <1>4, <2>1, <2>2
<1>6. LimiterTypeOK
  <2>1. cached \in [lim : Nat, until : Nat] /\ granted \in Seq(Events)
    BY <1>1
  <2>2. caller \in [Callers -> Call]
    BY <1>1, IdleTyped
  <2> QED
    BY <1>1, <1>5, <2>1, <2>2 DEF LimiterTypeOK
<1>7. LimitersMade
  <2>1. cached.lim = 0
    BY <1>1
  <2>2. /\ option \in {"limiter", "infinite"} => Len(lims) = 1
        /\ option \in {"local", "redis"} => Len(lims) = 0
    BY <1>4
  <2>3. \A i \in DOMAIN lims : i = 1 /\ lims[i].tokens <= Full
    BY <1>2, <1>3, <1>5
  <2>4. option = "local" => ~(Len(lims) > 0)
    BY <2>2
  <2>5. \A i, j \in DOMAIN lims : ~(i < j)
    BY <2>3
  <2> QED
    BY <1>1, <2>1, <2>2, <2>3, <2>4, <2>5 DEF LimitersMade
<1>8. CallsInOrder
  <2>1. \A c \in Callers : caller[c] = Idle
    BY <1>1
  <2>2. 0 \in 0 .. Len(lims)
    BY <1>5
  <2>3. InOrder(Idle) /\ ~Waiting(Idle)
    BY <2>2, IdleTyped DEF InOrder, Waiting
  <2> QED
    BY <2>1, <2>3 DEF CallsInOrder
<1>9. EventsInOrder
  BY <1>1 DEF EventsInOrder
<1>10. ASSUME NEW l \in Nat, NEW s \in Int, NEW t \in Int
       PROVE  GrantTimes(l) = {} /\ Granted(l, s, t) \in Int /\ Granted(l, s, t) <= 0
  <2>1. GrantTimes(l) = {}
    BY <1>1 DEF GrantTimes
  <2>2. granted \in Seq(Events)
    BY <1>1
  <2> QED
    BY <2>1, <2>2, NothingGranted, WeightsTyped
<1>11. \A l \in 0 .. Len(lims) : l \in Nat /\ Late(l) = 0
  BY <1>3, <1>5 DEF Late
<1>12. LevelPays
  BY <1>10, <1>11 DEF LevelPays
<1>13. StretchPays
  <2>1. ASSUME NEW l \in 0 .. Len(lims), NEW s \in Int, NEW t \in Int, s <= t
        PROVE  Granted(l, s, t) <= Full + (t - s) + Late(l)
    <3>1. Granted(l, s, t) \in Int /\ Granted(l, s, t) <= 0 /\ Late(l) = 0
      BY <1>10, <1>11
    <3> QED
      BY <1>2, <2>1, <3>1
  <2> QED
    BY <2>1 DEF StretchPays
<1>14. LacksGranted
  BY <1>1, <1>3, <1>5 DEF LacksGranted
<1>15. NoNeedlessRefusal
  BY <1>1, IdleTyped DEF NoNeedlessRefusal
<1> QED
  BY <1>6, <1>7, <1>8, <1>9, <1>12, <1>13, <1>14, <1>15 DEF LimiterInv

(* A new call reads the clock, or is refused for asking more than the      *)
(* burst.                                                                  *)
LEMMA CalledKeeps ==
    ASSUME LimiterInv, NEW c \in Callers, NEW call \in Call, Called(c, call), InOrder(call),
           ~Waiting(call), call.answer = "refused" => option # "infinite" /\ call.n > Burst
    PROVE  LimiterInv'
<1>1. caller' = [caller EXCEPT ![c] = call] /\ UNCHANGED <<option, lims, cached, redis, granted>>
      /\ now' = now /\ asks' = asks + 1
  BY DEF Called
<1>2. now' \in Nat /\ asks' \in Nat
  BY <1>1 DEF LimiterInv, LimiterTypeOK
<1>3. call.answer = "refused" => Justified(call)
  BY DEF Justified
<1> QED
  BY <1>1, <1>2, <1>3, CallMovesOn

(* AllowN, WaitN and the Allow of the two wrappers: what a call starts     *)
(* with, or is refused by at once.                                         *)
LEMMA CallsKeep ==
    ASSUME LimiterInv, NEW c \in Callers,
           AllowN(c) \/ WaitN(c) \/ WaitNContextOver(c) \/ LocalAllow(c) \/ RedisAllow(c)
    PROVE  LimiterInv'
<1>1. /\ option \in {"limiter", "infinite"} => Len(lims) = 1
      /\ option = "local" => cached.lim = Len(lims)
      /\ now \in Nat /\ Len(lims) \in Nat /\ DOMAIN lims = 1 .. Len(lims) /\ 0 \in 0 .. Len(lims)
  BY DEF LimiterInv, LimitersMade, LimiterTypeOK
<1>2. Burst \in Nat /\ 1 .. Burst + 1 \subseteq Nat /\ WaitLimits \subseteq Nat
  BY LimiterAssumption
<1>3. /\ {"reserve", "miss", "found", "script", "idle"} \subseteq Steps /\ {"Allow", "Wait"} \subseteq Ops
      /\ {"refused", "cancelled", "unnamed"} \subseteq Answers
  BY DEF Steps, Ops, Answers
<1>4. CASE AllowN(c)
  <2>1. PICK n \in 1 .. Burst + 1 :
          /\ option \in {"limiter", "infinite"}
          /\ Called(c, [Idle EXCEPT !.pc = "reserve", !.op = "Allow", !.lim = 1, !.n = n, !.t = now])
    BY <1>4 DEF AllowN
  <2> DEFINE call == [Idle EXCEPT !.pc = "reserve", !.op = "Allow", !.lim = 1, !.n = n, !.t = now]
  <2>2. n \in Nat /\ n > 0
    BY <1>2
  <2>3. /\ call \in Call /\ call.pc = "reserve" /\ call.lim = 1 /\ call.n = n /\ call.answer = ""
    BY <1>1, <1>3, <2>2, IdleTyped DEF Call
  <2>4. Called(c, call)
    BY <2>1
  <2> HIDE DEF call
  <2>5. 1 \in DOMAIN lims /\ 1 \in 0 .. Len(lims)
    BY <1>1, <2>1
  <2>6. InOrder(call) /\ ~Waiting(call)
    BY <2>1, <2>2, <2>3, <2>5 DEF InOrder, Waiting
  <2> QED
    BY <2>3, <2>4, <2>6, CalledKeeps
<1>5. CASE WaitN(c)
  <2>1. PICK n \in 1 .. Burst + 1, max \in WaitLimits :
          /\ option \in {"limiter", "infinite"}
          /\ Called(c, IF n > Burst /\ option # "infinite" THEN [Idle EXCEPT !.answer = "refused", !.n = n]
                       ELSE [Idle EXCEPT !.pc = "reserve", !.op = "Wait", !.lim = 1, !.n = n,
                                         !.max = max, !.t = now])
    BY <1>5 DEF WaitN
  <2>2. n \in Nat /\ n > 0 /\ max \in Nat
    BY <1>2
  <2>3. CASE n > Burst /\ option # "infinite"
    <3> DEFINE call == [Idle EXCEPT !.answer = "refused", !.n = n]
    <3>1. call \in Call /\ call.pc = "idle" /\ call.lim = 0 /\ call.n = n /\ call.answer = "refused"
      BY <1>3, <2>2, IdleTyped DEF Call
    <3>2. Called(c, call)
      BY <2>1, <2>3
    <3> HIDE DEF call
    <3>3. InOrder(call) /\ ~Waiting(call)
      BY <1>1, <2>3, <3>1 DEF InOrder, Waiting
    <3> QED
      BY <2>3, <3>1, <3>2, <3>3, CalledKeeps
  <2>4. CASE ~(n > Burst /\ option # "infinite")
    <3> DEFINE call == [Idle EXCEPT !.pc = "reserve", !.op = "Wait", !.lim = 1, !.n = n,
                                    !.max = max, !.t = now]
    <3>1. call \in Call /\ call.pc = "reserve" /\ call.lim = 1 /\ call.n = n /\ call.answer = ""
      BY <1>1, <1>3, <2>2, IdleTyped DEF Call
    <3>2. Called(c, call)
      BY <2>1, <2>4
    <3> HIDE DEF call
    <3>3. 1 \in DOMAIN lims /\ 1 \in 0 .. Len(lims)
      BY <1>1, <2>1
    <3>4. InOrder(call) /\ ~Waiting(call)
      BY <2>1, <2>2, <3>1, <3>3 DEF InOrder, Waiting
    <3> QED
      BY <3>1, <3>2, <3>4, CalledKeeps
  <2> QED
    BY <2>3, <2>4
<1>6. ASSUME NEW answer \in {"cancelled", "unnamed"}, Called(c, [Idle EXCEPT !.answer = answer])
      PROVE  LimiterInv'
  <2> DEFINE call == [Idle EXCEPT !.answer = answer]
  <2>1. answer # "refused" /\ answer \in Answers
    BY <1>3
  <2>2. call \in Call /\ call.pc = "idle" /\ call.lim = 0 /\ call.answer = answer
    BY <2>1, IdleTyped DEF Call
  <2>3. Called(c, call)
    BY <1>6
  <2> HIDE DEF call
  <2>4. InOrder(call) /\ ~Waiting(call)
    BY <1>1, <2>1, <2>2 DEF InOrder, Waiting
  <2> QED
    BY <2>1, <2>2, <2>3, <2>4, CalledKeeps
<1>7. CASE WaitNContextOver(c)
  BY <1>6, <1>7 DEF WaitNContextOver
<1>8. CASE LocalAllow(c)
  <2>1. CASE Called(c, [Idle EXCEPT !.answer = "unnamed"])
    BY <1>6, <2>1
  <2>2. CASE Called(c, [Idle EXCEPT !.pc = IF Cached = 0 THEN "miss" ELSE "found", !.lim = Cached, !.n = 1])
    <3> DEFINE step == IF Cached = 0 THEN "miss" ELSE "found"
               call == [Idle EXCEPT !.pc = step, !.lim = Cached, !.n = 1]
    <3>1. option = "local"
      BY <1>8 DEF LocalAllow
    <3>2. Cached \in 0 .. Len(lims)
      BY <1>1, <3>1 DEF Cached
    <3>3. Cached \in Nat /\ step \in Steps /\ step \in {"miss", "found"} /\ (step = "found" => Cached \in DOMAIN lims)
      BY <1>1, <1>3, <3>2
    <3>4. Called(c, call)
      BY <2>2
    <3> HIDE DEF step
    <3>5. call \in Call /\ call.pc = step /\ call.lim = Cached /\ call.n = 1 /\ call.answer = "" /\ call.max = 0
      BY <3>3, IdleTyped DEF Call
    <3> HIDE DEF call
    <3>6. InOrder(call) /\ ~Waiting(call)
      <4>1. call.pc = "miss" \/ (call.pc = "found" /\ Cached \in DOMAIN lims)
        BY <3>3, <3>5
      <4>2. call.lim \in 0 .. Len(lims) /\ call.n > 0 /\ call.answer # "refused"
        <5>1. call.lim \in 0 .. Len(lims)
          BY <3>2, <3>5, Zenon
        <5>2. call.n = 1
          BY <3>5, Zenon
        <5>3. call.answer # "refused"
          BY <3>5
        <5> QED
          BY <5>1, <5>2, <5>3
      <4>3. CASE call.pc = "miss"
        BY <3>1, <3>5, <4>2, <4>3 DEF InOrder, Waiting
      <4>4. CASE call.pc = "found" /\ call.lim \in DOMAIN lims
        BY <3>1, <3>5, <4>2, <4>4 DEF InOrder, Waiting
      <4> QED
        BY <3>5, <4>1, <4>3, <4>4
    <3> QED
      BY <3>4, <3>5, <3>6, CalledKeeps
  <2> QED
    BY <1>8, <2>1, <2>2 DEF LocalAllow
<1>9. CASE RedisAllow(c)
  <2> DEFINE call == [Idle EXCEPT !.pc = "script", !.n = 1, !.t = now]
  <2>1. option = "redis" /\ Called(c, call)
    BY <1>9 DEF RedisAllow
  <2>2. /\ call \in Call /\ call.pc = "script" /\ call.lim = 0 /\ call.n = 1 /\ call.answer = ""
        /\ call.max = 0
    BY <1>1, <1>3, IdleTyped DEF Call
  <2> HIDE DEF call
  <2>3. InOrder(call) /\ ~Waiting(call)
    BY <1>1, <2>1, <2>2 DEF InOrder, Waiting
  <2> QED
    BY <2>1, <2>2, <2>3, CalledKeeps
<1> QED
  BY <1>4, <1>5, <1>7, <1>8, <1>9

(* Time passing, or nothing happening, keeps the invariant.                *)
LEMMA ClockKeeps ==
    ASSUME LimiterInv, UNCHANGED <<option, lims, cached, redis, granted, caller>>,
           now' \in Nat, asks' \in Nat
    PROVE  LimiterInv'
<1>1. LimiterTypeOK'
  BY DEF LimiterInv, LimiterTypeOK
<1>2. LimitersMade'
  BY DEF LimiterInv, LimitersMade
<1>3. LevelPays' /\ StretchPays' /\ LacksGranted' /\ EventsInOrder'
  BY SameBuckets DEF LimiterInv
<1>4. CallsInOrder'
  BY DEF LimiterInv, CallsInOrder, InOrder, Waiting, HoldsEvent, Event
<1>5. NoNeedlessRefusal'
  <2>1. /\ \A l, s : CostSince(l, s)' = CostSince(l, s)
        /\ \A l : GrantTimes(l)' = GrantTimes(l)
    BY SameEvents
  <2> QED
    BY <2>1 DEF LimiterInv, NoNeedlessRefusal, Justified
<1> QED
  BY <1>1, <1>2, <1>3, <1>4, <1>5 DEF LimiterInv

(* A caller that goes on with the limiter it found, or is done.            *)
LEMMA MovesKeep ==
    ASSUME LimiterInv, NEW c \in Callers,
           LimiterAllow(c) \/ TimerFires(c) \/ ContextDone(c) \/ RedisFails(c)
    PROVE  LimiterInv'
<1> DEFINE me == caller[c]
<1>1. /\ me \in Call /\ InOrder(me) /\ (Waiting(me) => HoldsEvent(me)) /\ now \in Nat /\ asks \in Nat
      /\ caller \in [Callers -> Call] /\ 0 \in 0 .. Len(lims)
  BY DEF LimiterInv, LimiterTypeOK, CallsInOrder
<1>2. UNCHANGED <<option, lims, cached, redis, granted>> /\ now' \in Nat /\ asks' \in Nat
  BY <1>1 DEF LimiterAllow, TimerFires, ContextDone, RedisFails
<1>3. {"reserve", "cancel"} \subseteq Steps /\ "Allow" \in Ops /\ {"granted", "failed"} \subseteq Answers
  BY DEF Steps, Ops, Answers
<1>4. CASE LimiterAllow(c)
  <2> DEFINE call == [me EXCEPT !.pc = "reserve", !.op = "Allow", !.t = now]
  <2>1. me.pc = "found" /\ caller' = [caller EXCEPT ![c] = call]
    BY <1>1, <1>4 DEF LimiterAllow, Call
  <2>2. /\ call \in Call /\ call.pc = "reserve" /\ call.lim = me.lim /\ call.n = me.n /\ call.max = me.max
        /\ call.answer = me.answer
    BY <1>1, <1>3 DEF Call
  <2> HIDE DEF call, me
  <2>3. InOrder(call) /\ ~Waiting(call) /\ call.answer # "refused"
    BY <1>1, <2>1, <2>2 DEF InOrder, Waiting
  <2> QED
    BY <1>2, <2>1, <2>2, <2>3, CallMovesOn
<1>5. CASE ContextDone(c)
  <2> DEFINE call == [me EXCEPT !.pc = "cancel", !.t = now]
  <2>1. me.pc = "wait" /\ caller' = [caller EXCEPT ![c] = call]
    BY <1>1, <1>5 DEF ContextDone, Call
  <2>2. /\ call \in Call /\ call.pc = "cancel" /\ call.lim = me.lim /\ call.n = me.n /\ call.max = me.max
        /\ call.answer = me.answer /\ call.r = me.r
    BY <1>1, <1>3 DEF Call
  <2>3. me = caller[c]
    OBVIOUS
  <2> HIDE DEF call, me
  <2>4. InOrder(call) /\ call.answer # "refused" /\ Waiting(me)
    BY <1>1, <2>1, <2>2 DEF InOrder, Waiting
  <2> QED
    BY <1>2, <2>1, <2>2, <2>3, <2>4, CallMovesOn
<1>6. ASSUME NEW answer \in {"granted", "failed"}, caller' = [caller EXCEPT ![c] = [Idle EXCEPT !.answer = answer]]
      PROVE  LimiterInv'
  <2> DEFINE call == [Idle EXCEPT !.answer = answer]
  <2>1. call \in Call /\ call.pc = "idle" /\ call.lim = 0 /\ call.answer = answer
    BY <1>3, IdleTyped DEF Call
  <2>2. caller' = [caller EXCEPT ![c] = call] /\ answer # "refused"
    BY <1>6
  <2> HIDE DEF call
  <2>3. InOrder(call) /\ ~Waiting(call)
    BY <1>1, <2>1, <2>2 DEF InOrder, Waiting
  <2> QED
    BY <1>2, <2>1, <2>2, <2>3, CallMovesOn
<1>7. CASE TimerFires(c)
  BY <1>6, <1>7 DEF TimerFires
<1>8. CASE RedisFails(c)
  BY <1>6, <1>8 DEF RedisFails
<1> QED
  BY <1>4, <1>5, <1>7, <1>8

(* getLimiter under the mutex: the limiter that is cached, or a full one   *)
(* when that has expired.                                                  *)
LEMMA GetLimiterKeeps ==
    ASSUME LimiterInv, NEW c \in Callers, GetLimiter(c)
    PROVE  LimiterInv'
<1> DEFINE me == caller[c]
           n == Len(lims)
<1>1. /\ me \in Call /\ InOrder(me) /\ now \in Nat /\ asks \in Nat /\ caller \in [Callers -> Call]
      /\ lims \in Seq(Bucket) /\ cached \in [lim : Nat, until : Nat] /\ option \in Options
      /\ granted \in Seq(Events) /\ (redis = <<>> \/ redis \in Hash)
  BY DEF LimiterInv, LimiterTypeOK, CallsInOrder
<1>2. me.pc = "miss" /\ option = "local" /\ me.n = 1 /\ me.max = 0 /\ me.answer = ""
  BY <1>1 DEF GetLimiter, InOrder
<1>3. n \in Nat /\ DOMAIN lims = 1 .. n /\ \A i \in 1 .. n : lims[i] \in Bucket
  BY <1>1
<1>4. /\ cached.lim = n /\ (n > 0 => cached.until = lims[n].made + Expire)
      /\ \A i \in DOMAIN lims : lims[i].tokens <= Full
      /\ \A i, j \in DOMAIN lims : i < j => lims[j].made > lims[i].made + Expire
  BY <1>2 DEF LimiterInv, LimitersMade
<1>5. UNCHANGED <<option, now, redis, granted, asks>>
  BY DEF GetLimiter
<1>6. "found" \in Steps
  BY DEF Steps
<1>7. ASSUME NEW l \in Nat, NEW call, call = [me EXCEPT !.pc = "found", !.lim = l]
      PROVE  /\ call \in Call /\ call.pc = "found" /\ call.lim = l /\ call.n = 1 /\ call.max = 0
             /\ call.answer = ""
  BY <1>1, <1>2, <1>6, <1>7 DEF Call
<1>8. CASE Cached # 0
  <2> DEFINE call == [me EXCEPT !.pc = "found", !.lim = Cached]
  <2>1. UNCHANGED <<lims, cached>> /\ caller' = [caller EXCEPT ![c] = call]
    BY <1>1, <1>8 DEF GetLimiter, getLimiter, Call
  <2>2. Cached = n /\ Cached \in DOMAIN lims /\ Cached \in Nat /\ Cached \in 0 .. Len(lims)
    BY <1>3, <1>4, <1>8 DEF Cached
  <2>3. /\ call \in Call /\ call.pc = "found" /\ call.lim = Cached /\ call.n = 1 /\ call.max = 0
        /\ call.answer = ""
    BY <1>7, <2>2
  <2> HIDE DEF call
  <2>4. InOrder(call) /\ ~Waiting(call)
    <3>1. call.lim \in DOMAIN lims /\ call.lim \in 0 .. Len(lims)
      BY <2>2, <2>3, Zenon
    <3>2. call.pc = "found" /\ call.n = 1 /\ call.max = 0 /\ call.answer = ""
      BY <2>3, Zenon
    <3>3. call.n > 0 /\ call.answer # "refused"
      <4>1. call.n = 1
        BY <3>2, Zenon
      <4>2. call.answer # "refused"
        BY <3>2
      <4> QED
        BY <4>1, <4>2
    <3> QED
      BY <1>2, <3>1, <3>2, <3>3 DEF InOrder, Waiting
  <2>5. now' \in Nat /\ asks' \in Nat
    BY <1>1, <1>5
  <2> QED
    BY <1>5, <2>1, <2>3, <2>4, <2>5, CallMovesOn
<1>9. CASE Cached = 0
  <2> DEFINE call == [me EXCEPT !.pc = "found", !.lim = n + 1]
             new == NewLimiter(now)
  <2>1. /\ lims' = Append(lims, new) /\ cached' = [lim |-> n + 1, until |-> now + Expire]
        /\ caller' = [caller EXCEPT ![c] = call]
    BY <1>1, <1>9 DEF GetLimiter, getLimiter, Call
  <2>2. Full \in Nat /\ Expire \in Nat
    BY PartsOfTokens, LimiterAssumption
  <2>3. /\ new \in Bucket /\ new.made = now /\ new.tokens = 0 /\ new.tokens <= Full
        /\ new.back = 0 /\ new.excess = 0 /\ Emptied(new) <= -Full
    BY <1>1, <2>2 DEF NewLimiter, Bucket, Emptied
  <2>4. n + 1 \in Nat
    BY <1>3
  <2>5. /\ call \in Call /\ call.pc = "found" /\ call.lim = n + 1 /\ call.n = 1 /\ call.max = 0
        /\ call.answer = ""
    BY <1>7, <2>4
  <2> HIDE DEF new, call
  <2>6. /\ lims' \in Seq(Bucket) /\ Len(lims') = n + 1 /\ DOMAIN lims' = 1 .. n + 1
        /\ lims'[n + 1] = new /\ \A i \in 1 .. n : lims'[i] = lims[i]
    BY <1>1, <2>1, <2>3
  <2>7. caller'[c] = call /\ \A d \in Callers \ {c} : caller'[d] = caller[d]
    BY <1>1, <2>1
  <2>8. cached'.lim = n + 1 /\ cached'.until = now + Expire /\ cached' \in [lim : Nat, until : Nat]
    BY <1>1, <2>1, <2>2, <2>4
  <2> HIDE DEF n
  <2>9. \A i \in 1 .. n + 1 : i = n + 1 \/ i \in 1 .. n
    BY <1>3
  <2>10. LimiterTypeOK'
    <3>1. caller' \in [Callers -> Call]
      BY <1>1, <2>1, <2>5
    <3> QED
      BY <1>1, <1>5, <2>6, <2>8, <3>1 DEF LimiterTypeOK
  <2>11. LimitersMade'
    <3>1. ASSUME NEW i \in 1 .. n PROVE now > lims[i].made + Expire
      <4>1. n > 0 /\ n \in DOMAIN lims /\ i \in DOMAIN lims /\ lims[i].made \in Nat /\ lims[n].made \in Nat
        BY <1>3, BucketFields
      <4>2. now > lims[n].made + Expire
        BY <1>1, <1>4, <1>9, <4>1 DEF Cached
      <4>3. i = n \/ i < n
        BY <1>3
      <4> QED
        BY <1>1, <1>4, <2>2, <4>1, <4>2, <4>3
    <3>2. ASSUME NEW i \in 1 .. n + 1, NEW j \in 1 .. n + 1, i < j
          PROVE  lims'[j].made > lims'[i].made + Expire
      <4>1. i \in 1 .. n
        BY <1>3, <3>2
      <4> QED
        BY <1>3, <1>4, <2>3, <2>6, <2>9, <3>1, <3>2, <4>1
    <3>3. \A i \in 1 .. n + 1 : lims'[i].tokens <= Full
      BY <1>3, <1>4, <2>3, <2>6, <2>9
    <3>4. lims'[Len(lims')].made = now
      BY <2>3, <2>6
    <3> QED
      BY <1>2, <1>5, <2>6, <2>8, <3>2, <3>3, <3>4 DEF LimitersMade
  <2>12. 0 .. n \subseteq 0 .. n + 1 /\ 1 .. n \subseteq 1 .. n + 1 /\ n + 1 \in 1 .. n + 1 /\ n + 1 \in 0 .. n + 1
    BY <1>3
  <2>13. EventsInOrder'
    BY <1>5, <2>6, <2>12 DEF LimiterInv, EventsInOrder, n
  <2>14. ASSUME NEW d \in Callers PROVE InOrder(caller[d])'
    <3>1. CASE d = c
      <4>1. option' = "local" /\ call.lim \in DOMAIN lims' /\ call.lim \in 0 .. Len(lims')
        BY <1>2, <1>5, <2>5, <2>6, <2>12
      <4>2. call.pc = "found" /\ call.n = 1 /\ call.max = 0 /\ call.answer = ""
        BY <2>5, Zenon
      <4>3. call.n > 0 /\ call.answer # "refused"
        <5>1. call.n = 1
          BY <4>2, Zenon
        <5>2. call.answer # "refused"
          BY <4>2
        <5> QED
          BY <5>1, <5>2
      <4>4. caller'[d] = call
        BY <2>7, <3>1
      <4> QED
        BY <4>1, <4>2, <4>3, <4>4 DEF InOrder
    <3>2. CASE d # c
      <4>1. InOrder(caller[d]) /\ caller'[d] = caller[d]
        BY <2>7, <3>2 DEF LimiterInv, CallsInOrder
      <4> QED
        BY <1>3, <1>5, <2>6, <2>12, <4>1 DEF InOrder, n
    <3> QED
      BY <3>1, <3>2
  <2>15. ASSUME NEW d \in Callers PROVE ~Waiting(caller[d])'
    <3>1. ~Waiting(caller[d])
      BY <1>2 DEF LimiterInv, CallsInOrder, HoldsEvent
    <3> QED
      BY <2>5, <2>7, <3>1 DEF Waiting
  <2>16. CallsInOrder'
    BY <2>14, <2>15 DEF CallsInOrder
  <2>17. /\ \A l, s, t : Granted(l, s, t)' = Granted(l, s, t)
         /\ \A l, s : CostSince(l, s)' = CostSince(l, s)
         /\ \A l : GrantTimes(l)' = GrantTimes(l)
    BY <1>5, SameEvents
  <2>18. GrantTimes(n + 1) = {}
    <3>1. \A i \in DOMAIN granted : granted[i].lim # n + 1
      BY <1>3 DEF LimiterInv, EventsInOrder, n
    <3> QED
      BY <3>1 DEF GrantTimes
  <2>19. \A k \in 0 .. n : Level(k)' = Level(k) /\ Late(k)' = Late(k)
    BY <1>3, <1>5, <2>6 DEF Level, Late, Emptied, EmptiedHash
  <2>20. \A k \in 0 .. n + 1 : k = n + 1 \/ k \in 0 .. n
    BY <1>3
  <2>21. LevelPays'
    BY <2>6, <2>17, <2>18, <2>19, <2>20 DEF LimiterInv, LevelPays, n
  <2>22. StretchPays'
    <3>1. ASSUME NEW k \in 0 .. n + 1, NEW s \in Int, NEW t \in Int, s <= t
          PROVE  Granted(k, s, t) <= Full + (t - s) + Late(k)'
      <4>1. CASE k \in 0 .. n
        BY <2>19, <3>1, <4>1 DEF LimiterInv, StretchPays, n
      <4>2. CASE k = n + 1
        <5>1. Granted(k, s, t) \in Int /\ Granted(k, s, t) <= 0
          BY <1>1, <2>4, <2>18, <4>2, NothingGranted, WeightsTyped DEF n
        <5>2. Late(k)' = 0
          BY <1>3, <2>3, <2>6, <4>2 DEF Late
        <5> QED
          BY <2>2, <3>1, <5>1, <5>2
      <4> QED
        BY <2>20, <4>1, <4>2
    <3> QED
      BY <2>6, <2>17, <3>1 DEF StretchPays
  <2>23. LacksGranted'
    <3>1. ASSUME NEW k \in 1 .. n + 1
          PROVE  lims'[k].cancels > 0 \/ Emptied(lims'[k]) <= -Full
                 \/ \E s \in GrantTimes(k)' :
                      /\ Emptied(lims'[k]) <= s - Full + CostSince(k, s)
                      /\ CostSince(k, s) >= Full \/ Emptied(lims'[k]) <= lims'[k].last - Full + CostSince(k, s)
      BY <1>3, <2>3, <2>6, <2>9, <2>17 DEF LimiterInv, LacksGranted
    <3>2. Level(0)' = Level(0)
      BY <1>3, <2>19
    <3> QED
      BY <1>5, <2>6, <2>17, <3>1, <3>2 DEF LimiterInv, LacksGranted, Emptied
  <2>24. NoNeedlessRefusal'
    <3>1. ASSUME NEW d \in Callers, caller'[d].answer = "refused" PROVE Justified(caller[d])'
      <4>1. caller'[d] = caller[d] /\ Justified(caller[d]) /\ InOrder(caller[d])
        BY <2>5, <2>7, <3>1 DEF LimiterInv, NoNeedlessRefusal, CallsInOrder
      <4>2. caller[d].lim # 0 => lims'[caller[d].lim] = lims[caller[d].lim]
        <5>1. caller[d].lim \in 0 .. n
          BY <4>1 DEF InOrder, n
        <5>2. caller[d].lim # 0 => caller[d].lim \in 1 .. n
          BY <1>3, <5>1
        <5> QED
          BY <2>6, <5>2
      <4> QED
        BY <1>5, <2>17, <4>1, <4>2 DEF Justified
    <3> QED
      BY <3>1 DEF NoNeedlessRefusal
  <2> QED
    BY <2>10, <2>11, <2>13, <2>16, <2>21, <2>22, <2>23, <2>24 DEF LimiterInv
<1> QED
  BY <1>8, <1>9

(* A sum of integers that are not negative is not negative; what the       *)
(* events from an earlier time on cost is no less.                         *)
LEMMA CostsNotNegative ==
    ASSUME granted \in Seq(Events), NEW l \in Nat, NEW s \in Int
    PROVE  /\ CostSince(l, s) \in Int /\ CostSince(l, s) >= 0
           /\ \A u \in Int : u <= s => CostSince(l, s) <= CostSince(l, u)
<1> DEFINE w == Costs(l, s)
<1>1. /\ w \in Seq(Int) /\ Len(w) = Len(granted) /\ CostSince(l, s) \in Int /\ Len(granted) \in Nat
      /\ \A i \in 1 .. Len(granted) : granted[i].at \in Int /\ granted[i].parts \in Nat
  BY WeightsTyped
<1>2. TokenParts \in Nat /\ 2 * TokenParts - 1 >= 0 /\ 2 * TokenParts - 1 \in Int
  BY PartsOfTokens
<1>3. \A u \in Int : \A i \in 1 .. Len(granted) :
        Costs(l, u)[i] = IF granted[i].lim # l \/ granted[i].at < u THEN 0
                         ELSE IF l = 0 THEN 2 * TokenParts - 1 ELSE granted[i].parts
  BY DEF Costs
<1>4. ASSUME NEW i \in 1 .. Len(w) PROVE w[i] \in Int /\ w[i] >= 0
  <2>1. i \in 1 .. Len(granted) /\ granted[i].at \in Int /\ granted[i].parts \in Nat
    BY <1>1
  <2>2. w[i] = 0 \/ w[i] = 2 * TokenParts - 1 \/ w[i] = granted[i].parts
    BY <1>3, <2>1
  <2> HIDE DEF w
  <2> QED
    BY <1>2, <2>1, <2>2
<1>5. PICK g : IsRunningSum(w, g)
  BY <1>1, RunningSumExists
<1>6. CostSince(l, s) = g[Len(w)]
  BY <1>1, <1>5, SumIsLast DEF CostSince
<1>7. Len(w) \in Nat
  BY <1>1
<1> HIDE DEF w
<1>8. g[Len(w)] >= 0
  <2> DEFINE S == {k \in Nat : k <= Len(w) => g[k] \in Int /\ g[k] >= 0}
  <2>1. 0 \in S
    BY <1>5, <1>7 DEF IsRunningSum
  <2>2. ASSUME NEW k \in 0 .. Len(w) - 1, k \in S PROVE k + 1 \in S
    <3>1. k + 1 \in 1 .. Len(w) /\ k \in Nat /\ k <= Len(w) /\ (k + 1) - 1 = k
      BY <1>7
    <3>2. g[k] \in Int /\ g[k] >= 0 /\ g[k + 1] = g[k] + w[k + 1]
      BY <1>5, <2>2, <3>1 DEF IsRunningSum
    <3>3. w[k + 1] \in Int /\ w[k + 1] >= 0
      BY <1>4, <3>1
    <3>4. g[k + 1] \in Int /\ g[k + 1] >= 0
      BY <3>2, <3>3
    <3> QED
      BY <3>1, <3>4
  <2> HIDE DEF S
  <2>3. Len(w) \in S
    <3>1. \A k \in 0 .. Len(w) : k \in S
      BY <1>7, <2>1, <2>2, UpTo
    <3> QED
      BY <1>7, <3>1
  <2> QED
    BY <1>7, <2>3 DEF S
<1>9. ASSUME NEW u \in Int, u <= s PROVE CostSince(l, s) <= CostSince(l, u)
  <2> DEFINE v == Costs(l, u)
  <2>1. v \in Seq(Int) /\ Len(v) = Len(granted)
    BY WeightsTyped
  <2>2. ASSUME NEW i \in 1 .. Len(w) PROVE w[i] <= v[i]
    <3>1. i \in 1 .. Len(granted) /\ granted[i].at \in Int /\ granted[i].parts \in Nat
      BY <1>1
    <3>2. CASE granted[i].lim # l \/ granted[i].at < s
      <4>1. w[i] = 0
        BY <1>3, <3>1, <3>2 DEF w
      <4>2. v[i] = 0 \/ v[i] = 2 * TokenParts - 1 \/ v[i] = granted[i].parts
        BY <1>3, <3>1
      <4> HIDE DEF v
      <4> QED
        BY <1>2, <3>1, <4>1, <4>2
    <3>3. CASE granted[i].lim = l /\ ~(granted[i].at < s)
      <4>1. ~(granted[i].at < u)
        BY <1>9, <3>1, <3>3
      <4>2. w[i] = v[i]
        BY <1>3, <3>1, <3>3, <4>1 DEF w
      <4> QED
        BY <1>4, <4>2
    <3> QED
      BY <3>2, <3>3
  <2> QED
    BY <1>1, <2>1, <2>2, SumSmaller DEF CostSince, w
<1> QED
  BY <1>1, <1>6, <1>8, <1>9

(* What the levels of the buckets are.                                     *)
LEMMA LevelsTyped ==
    ASSUME LimiterTypeOK, NEW l \in 0 .. Len(lims)
    PROVE  /\ l \in Nat /\ Late(l) \in Nat /\ (l # 0 \/ redis # <<>> => Level(l) \in Int)
           /\ l # 0 => l \in DOMAIN lims /\ lims[l] \in Bucket
<1>1. l \in Nat /\ (l # 0 => l \in DOMAIN lims /\ lims[l] \in Bucket)
  BY DEF LimiterTypeOK
<1>2. CASE l = 0
  <2>1. Late(l) = 0
    BY <1>2 DEF Late
  <2>2. ASSUME redis # <<>> PROVE Level(l) \in Int
    <3>1. redis.last \in Nat /\ redis.surplus \in Nat
      BY <2>2 DEF LimiterTypeOK, Hash
    <3>2. redis.surplus * TokenParts \in Nat
      BY <3>1, PartsOfTokens
    <3> QED
      BY <1>2, <3>1, <3>2 DEF Level, EmptiedHash
  <2> QED
    BY <1>1, <1>2, <2>1, <2>2
<1>3. CASE l # 0
  <2>1. lims[l].back \in Nat /\ lims[l].excess \in Nat /\ Emptied(lims[l]) \in Int
    BY <1>1, <1>3, BucketFields
  <2> QED
    BY <1>1, <1>3, <2>1 DEF Level, Late
<1> QED
  BY <1>2, <1>3

(* A grant that the bucket pays for, by being empty later, and that comes  *)
(* when it is empty at the earliest.                                       *)
PaidFor(l, e) ==
  /\ granted' = Append(granted, e) /\ Len(lims') = Len(lims) /\ e.lim = l /\ e.parts > 0
  /\ \A k \in 0 .. Len(lims) : k # l => Level(k)' = Level(k) /\ Late(k)' = Late(k)
  /\ Level(l)' \in Int /\ Late(l)' \in Int /\ Late(l) <= Late(l)'
  /\ GrantTimes(l) # {} => Level(l) + e.parts <= Level(l)'
  /\ e.at + e.parts <= Full + Level(l)' /\ Level(l)' <= e.at + Late(l)'

(* Such a grant keeps what every stretch holds paid for.                   *)
LEMMA GrantPays ==
    ASSUME LimiterInv, NEW l \in 0 .. Len(lims), NEW e \in Events, PaidFor(l, e)
    PROVE  LevelPays' /\ StretchPays'
<1>1. LimiterTypeOK /\ LevelPays /\ StretchPays /\ EventsInOrder /\ granted \in Seq(Events)
  BY DEF LimiterInv, LimiterTypeOK
<1>2. e.at \in Int /\ e.parts \in Nat /\ Full \in Nat
  BY PartsOfTokens DEF Events
<1>3. \A k \in 0 .. Len(lims) : k \in Nat /\ Late(k) \in Nat
  BY <1>1, LevelsTyped
<1>4. granted' = Append(granted, e) /\ e.lim = l /\ e.parts > 0 /\ Len(lims') = Len(lims)
  BY DEF PaidFor
<1>5. ASSUME NEW k \in Nat
      PROVE  GrantTimes(k)' = GrantTimes(k) \cup (IF e.lim = k THEN {e.at} ELSE {})
  BY <1>1, <1>4, TimeAdded
<1>6. ASSUME NEW k \in Nat, NEW s \in Int, NEW t \in Int
      PROVE  /\ Granted(k, s, t) \in Int /\ Granted(k, s, t)' \in Int
             /\ Granted(k, s, t)' <= Granted(k, s, t) + e.parts
             /\ ~(l = k /\ s <= e.at /\ e.at <= t) => Granted(k, s, t)' = Granted(k, s, t)
             /\ ~(\E a \in GrantTimes(k) : s <= a) => Granted(k, s, t) <= 0
  <2>1. ~(\E a \in GrantTimes(k) : s <= a) => Granted(k, s, t) <= 0
    BY <1>1, NothingGranted
  <2>2. /\ Granted(k, s, t) \in Int /\ Granted(k, s, t)' \in Int
        /\ Granted(k, s, t)' <= Granted(k, s, t) + e.parts
        /\ Granted(k, s, t)' # Granted(k, s, t) => e.lim = k /\ s <= e.at /\ e.at <= t
    BY <1>1, <1>4, EventAdded
  <2> QED
    BY <1>2, <1>4, <2>1, <2>2
<1>7. /\ Level(l)' \in Int /\ Late(l)' \in Int /\ Late(l) <= Late(l)'
      /\ GrantTimes(l) # {} => Level(l) + e.parts <= Level(l)'
      /\ e.at + e.parts <= Full + Level(l)' /\ Level(l)' <= e.at + Late(l)'
  BY DEF PaidFor
<1>8. \A k \in 0 .. Len(lims) : k # l => Level(k)' = Level(k) /\ Late(k)' = Late(k)
  BY DEF PaidFor
<1>9. GrantTimes(l) # {} => Level(l) \in Int
  <2>1. GrantTimes(0) # {} => redis # <<>>
    BY <1>1 DEF GrantTimes, EventsInOrder
  <2> QED
    BY <1>1, <2>1, LevelsTyped
<1>10. ASSUME NEW s \in Int, NEW t \in Int, \E a \in GrantTimes(l)' : s <= a
       PROVE  Granted(l, s, t)' <= Full + Level(l)' - s
  <2>1. /\ Granted(l, s, t)' \in Int /\ Granted(l, s, t)' <= Granted(l, s, t) + e.parts
        /\ Granted(l, s, t) \in Int
    BY <1>3, <1>6
  <2>2. CASE \E a \in GrantTimes(l) : s <= a
    <3>1. Granted(l, s, t) <= Full + Level(l) - s
      BY <1>1, <2>2 DEF LevelPays
    <3>2. Level(l) \in Int /\ Level(l) + e.parts <= Level(l)' /\ Level(l)' \in Int
      BY <1>7, <1>9, <2>2
    <3> QED
      BY <1>2, <2>1, <3>1, <3>2, SMTT(90)
  <2>3. CASE ~(\E a \in GrantTimes(l) : s <= a)
    <3>1. s <= e.at
      BY <1>3, <1>5, <1>10, <2>3
    <3>2. Granted(l, s, t) <= 0
      BY <1>3, <1>6, <2>3
    <3>3. e.at + e.parts <= Full + Level(l)' /\ Level(l)' \in Int
      BY <1>7
    <3> QED
      BY <1>2, <2>1, <3>1, <3>2, <3>3
  <2> QED
    BY <2>2, <2>3
<1>11. LevelPays'
  <2>1. ASSUME NEW k \in 0 .. Len(lims), NEW s \in Int, NEW t \in Int, \E a \in GrantTimes(k)' : s <= a
        PROVE  Granted(k, s, t)' <= Full + Level(k)' - s
    <3>1. CASE k = l
      BY <1>10, <2>1, <3>1
    <3>2. CASE k # l
      <4>1. GrantTimes(k)' = GrantTimes(k) /\ Granted(k, s, t)' = Granted(k, s, t)
        BY <1>3, <1>4, <1>5, <1>6, <3>2
      <4>2. Granted(k, s, t) <= Full + Level(k) - s
        BY <1>1, <2>1, <4>1 DEF LevelPays
      <4> QED
        BY <1>8, <3>2, <4>1, <4>2
    <3> QED
      BY <3>1, <3>2
  <2> QED
    BY <1>4, <2>1 DEF LevelPays
<1>12. StretchPays'
  <2>1. ASSUME NEW k \in 0 .. Len(lims), NEW s \in Int, NEW t \in Int, s <= t
        PROVE  Granted(k, s, t)' <= Full + (t - s) + Late(k)'
    <3>1. Granted(k, s, t) <= Full + (t - s) + Late(k) /\ Granted(k, s, t) \in Int /\ Late(k) \in Nat
      BY <1>1, <1>3, <1>6, <2>1 DEF StretchPays
    <3>2. CASE k = l /\ s <= e.at /\ e.at <= t
      <4>1. e.at \in GrantTimes(l)' /\ s <= e.at /\ e.at <= t
        BY <1>3, <1>4, <1>5, <3>2
      <4>2. Granted(l, s, t)' <= Full + Level(l)' - s /\ Granted(l, s, t)' \in Int
        BY <1>3, <1>6, <1>10, <4>1
      <4>3. Granted(l, s, t)' <= Full + (t - s) + Late(l)'
        BY <1>2, <1>7, <4>1, <4>2
      <4> QED
        BY <3>2, <4>3
    <3>3. CASE ~(k = l /\ s <= e.at /\ e.at <= t)
      <4>1. Granted(k, s, t)' = Granted(k, s, t)
        BY <1>3, <1>6, <3>3
      <4>2. Late(k) <= Late(k)' /\ Late(k)' \in Int
        BY <1>7, <1>8, <3>1
      <4> QED
        BY <1>2, <2>1, <3>1, <4>1, <4>2
    <3> QED
      BY <3>2, <3>3
  <2> QED
    BY <1>4, <2>1 DEF StretchPays
<1> QED
  BY <1>11, <1>12

(* A step in which one caller moves on, and the events that others wait    *)
(* for stay, leaves the callers in order.                                  *)
LEMMA OthersWait ==
    ASSUME LimiterInv, NEW c \in Callers, NEW call \in Call, caller' = [caller EXCEPT ![c] = call],
           UNCHANGED option, Len(lims') = Len(lims), DOMAIN lims' = DOMAIN lims,
           InOrder(call),
           \A d \in Callers \ {c} : Waiting(caller[d]) =>
              caller[d].r.event \in DOMAIN granted' /\ granted'[caller[d].r.event] = granted[caller[d].r.event],
           Waiting(call) =>
              /\ option = "limiter" /\ call.lim = 1 /\ call.r.n \in 1 .. Burst
              /\ call.r.event \in DOMAIN granted' /\ granted'[call.r.event] = Event(1, call.r.act, call.r.n)
              /\ \A d \in Callers \ {c} : Waiting(caller[d]) => caller[d].r.event # call.r.event
    PROVE  CallsInOrder'
<1>1. caller'[c] = call /\ \A d \in Callers \ {c} : caller'[d] = caller[d]
  BY DEF LimiterInv, LimiterTypeOK
<1>2. CallsInOrder
  BY DEF LimiterInv
<1>3. ASSUME NEW d \in Callers PROVE InOrder(caller[d])'
  <2>1. InOrder(caller'[d])
    BY <1>1, <1>2 DEF CallsInOrder
  <2> QED
    BY <2>1 DEF InOrder
<1>4. ASSUME NEW d \in Callers PROVE (Waiting(caller[d]) => HoldsEvent(caller[d]))'
  <2> SUFFICES ASSUME Waiting(caller'[d]) PROVE HoldsEvent(caller[d])'
    BY DEF Waiting
  <2>1. CASE d = c
    <3>1. caller'[d] = call /\ Waiting(call)
      BY <1>1, <2>1
    <3>2. /\ option = "limiter" /\ call.lim = 1 /\ call.r.n \in 1 .. Burst
          /\ call.r.event \in DOMAIN granted' /\ granted'[call.r.event] = Event(1, call.r.act, call.r.n)
      BY <3>1
    <3> QED
      BY <3>1, <3>2 DEF HoldsEvent, Event
  <2>2. CASE d # c
    <3>1. caller'[d] = caller[d] /\ Waiting(caller[d]) /\ HoldsEvent(caller[d])
      BY <1>1, <1>2, <2>2 DEF CallsInOrder
    <3>2. caller[d].r.event \in DOMAIN granted' /\ granted'[caller[d].r.event] = granted[caller[d].r.event]
      BY <2>2, <3>1
    <3> QED
      BY <3>1, <3>2 DEF HoldsEvent, Event
  <2> QED
    BY <2>1, <2>2
<1>5. ASSUME NEW d \in Callers, NEW e \in Callers, d # e, Waiting(caller'[d]), Waiting(caller'[e])
      PROVE  caller'[d].r.event # caller'[e].r.event
  <2>1. CASE d = c
    <3>1. caller'[d] = call /\ caller'[e] = caller[e] /\ e \in Callers \ {c}
      BY <1>1, <1>5, <2>1
    <3> QED
      BY <1>5, <3>1
  <2>2. CASE e = c
    <3>1. caller'[e] = call /\ caller'[d] = caller[d] /\ d \in Callers \ {c}
      BY <1>1, <1>5, <2>2
    <3> QED
      BY <1>5, <3>1
  <2>3. CASE d # c /\ e # c
    <3>1. caller'[e] = caller[e] /\ caller'[d] = caller[d]
      BY <1>1, <2>3
    <3> QED
      BY <1>2, <1>5, <3>1 DEF CallsInOrder
  <2> QED
    BY <2>1, <2>2, <2>3
<1> QED
  BY <1>3, <1>4, <1>5 DEF CallsInOrder, Waiting

(* A refusal stays justified when more is granted.                         *)
LEMMA StaysJustified ==
    ASSUME LimiterInv, NEW me \in Call, Justified(me), me.lim \in 0 .. Len(lims), UNCHANGED option,
           granted' = granted \/ \E e \in Events : e.parts > 0 /\ granted' = Append(granted, e),
           \A k \in 1 .. Len(lims) : lims'[k].cancels = lims[k].cancels
    PROVE  Justified(me)'
<1>1. granted \in Seq(Events) /\ Len(lims) \in Nat
  BY DEF LimiterInv, LimiterTypeOK
<1>2. me.lim \in Nat /\ me.n \in Nat /\ me.max \in Nat /\ me.t \in Nat /\ me.n * TokenParts \in Nat /\ Full \in Nat
  BY CallFields, PartsOfTokens
<1>3. GrantTimes(me.lim) \subseteq Int
  BY <1>1, <1>2, NothingGranted
<1>4. GrantTimes(me.lim) \subseteq GrantTimes(me.lim)'
      /\ \A s \in Int : /\ CostSince(me.lim, s) \in Int /\ CostSince(me.lim, s)' \in Int
                        /\ CostSince(me.lim, s) <= CostSince(me.lim, s)'
  <2>1. CASE granted' = granted
    <3>1. \A s \in Int : CostSince(me.lim, s) \in Int
      BY <1>1, <1>2, CostsNotNegative
    <3>2. GrantTimes(me.lim)' = GrantTimes(me.lim) /\ \A s \in Int : CostSince(me.lim, s)' = CostSince(me.lim, s)
      BY <2>1, SameEvents
    <3>3. ASSUME NEW s \in Int
          PROVE  /\ CostSince(me.lim, s) \in Int /\ CostSince(me.lim, s)' \in Int
                 /\ CostSince(me.lim, s) <= CostSince(me.lim, s)'
      <4>1. CostSince(me.lim, s) \in Int /\ CostSince(me.lim, s)' = CostSince(me.lim, s)
        BY <3>1, <3>2
      <4> QED
        BY <4>1
    <3> QED
      BY <3>2, <3>3
  <2>2. CASE \E e \in Events : e.parts > 0 /\ granted' = Append(granted, e)
    <3>1. PICK e \in Events : e.parts > 0 /\ granted' = Append(granted, e)
      BY <2>2
    <3>2. GrantTimes(me.lim)' = GrantTimes(me.lim) \cup (IF e.lim = me.lim THEN {e.at} ELSE {})
      BY <1>1, <1>2, <3>1, TimeAdded
    <3>3. ASSUME NEW s \in Int
          PROVE  /\ CostSince(me.lim, s) \in Int /\ CostSince(me.lim, s)' \in Int
                 /\ CostSince(me.lim, s) <= CostSince(me.lim, s)'
      BY <1>1, <1>2, <3>1, EventAdded
    <3> QED
      BY <3>2, <3>3
  <2> QED
    BY <2>1, <2>2
<1>5. CASE me.n > Burst
  BY <1>5 DEF Justified
<1>6. CASE \E s \in GrantTimes(me.lim) : CostSince(me.lim, s) + me.n * TokenParts > Full + me.max + (me.t - s)
  <2>1. PICK s \in GrantTimes(me.lim) : CostSince(me.lim, s) + me.n * TokenParts > Full + me.max + (me.t - s)
    BY <1>6
  <2>2. s \in Int /\ s \in GrantTimes(me.lim)'
    BY <1>3, <1>4
  <2>3. /\ CostSince(me.lim, s) \in Int /\ CostSince(me.lim, s)' \in Int
        /\ CostSince(me.lim, s) <= CostSince(me.lim, s)'
    BY <1>4, <2>2
  <2> DEFINE p == me.n * TokenParts
  <2>4. p \in Nat /\ CostSince(me.lim, s) + p > Full + me.max + (me.t - s)
    BY <1>2, <2>1
  <2> HIDE DEF p
  <2>5. CostSince(me.lim, s)' + p > Full + me.max + (me.t - s)
    BY <1>2, <2>2, <2>3, <2>4, SMTT(90)
  <2> QED
    BY <2>2, <2>5 DEF Justified, p
<1>7. CASE me.lim # 0 /\ lims[me.lim].cancels > 0
  <2>1. me.lim \in 1 .. Len(lims)
    BY <1>1, <1>7
  <2> QED
    BY <1>7, <2>1 DEF Justified
<1> QED
  BY <1>5, <1>6, <1>7 DEF Justified

(* What a bucket lacks has been granted from some event on.                *)
Enough(l, lim, s) ==
  /\ Emptied(lim) <= s - Full + CostSince(l, s)
  /\ CostSince(l, s) >= Full \/ Emptied(lim) <= lim.last - Full + CostSince(l, s)
Lacks(l, lim) == lim.cancels > 0 \/ Emptied(lim) <= -Full \/ \E s \in GrantTimes(l) : Enough(l, lim, s)

(* A bound on a moves with b and the bound on its time.                    *)
LEMMA Shifted ==
    ASSUME NEW a \in Int, NEW b \in Int, NEW late \in Int, NEW p \in Int, NEW last \in Int,
           NEW t \in Int, NEW full \in Int, NEW c \in Int,
           b = a - late + p, a <= last - full + c, last - late <= t
    PROVE  b <= t - full + (c + p)
  OBVIOUS

(* A reservation that is granted leaves it so.                             *)
LEMMA GrantLacks ==
    ASSUME granted \in Seq(Events), NEW l \in Nat \ {0}, NEW e \in Events, granted' = Append(granted, e),
           e.lim = l, e.parts > 0, NEW lim \in Bucket, NEW new \in Bucket, NEW late \in Nat, NEW t \in Nat,
           Lacks(l, lim), new.cancels = lim.cancels, new.last = t, lim.last - late <= t, t <= e.at,
           Emptied(new) <= e.at,
           \/ Emptied(new) = Emptied(lim) - late + e.parts
           \/ Emptied(new) = t - Full + e.parts /\ e.at = t
    PROVE  Lacks(l, new)'
<1> DEFINE at == e.at
           p == e.parts
<1>1. at \in Int /\ p \in Nat /\ Full \in Nat /\ Emptied(new) \in Int /\ Emptied(lim) \in Int /\ lim.last \in Int
  BY PartsOfTokens, BucketFields DEF Events
<1>2. at \in GrantTimes(l)' /\ GrantTimes(l) \subseteq GrantTimes(l)'
  BY TimeAdded
<1>3. GrantTimes(l) \subseteq Int
  BY NothingGranted
<1>4. ASSUME NEW s \in Int
      PROVE  /\ CostSince(l, s) \in Int /\ CostSince(l, s) >= 0
             /\ s <= at => CostSince(l, s)' = CostSince(l, s) + p
  <2>1. CostSince(l, s) \in Int /\ CostSince(l, s) >= 0
    BY CostsNotNegative
  <2>2. s <= at => CostSince(l, s)' = CostSince(l, s) + p
    BY EventAdded, ZenonT(120)
  <2> QED
    BY <2>1, <2>2
<1>5. at <= at /\ t <= at
  BY <1>1
<1>6. CostSince(l, at)' = CostSince(l, at) + p /\ CostSince(l, at) \in Int /\ CostSince(l, at) >= 0
  BY <1>1, <1>4, <1>5
<1> HIDE DEF at, p
<1>7. ASSUME NEW s \in GrantTimes(l)', NEW k \in Int, CostSince(l, s)' = k, Emptied(new) <= s - Full + k,
             k >= Full \/ Emptied(new) <= t - Full + k
      PROVE  Lacks(l, new)'
  <2>1. Enough(l, new, s)'
    BY <1>7 DEF Enough, Emptied
  <2> QED
    BY <2>1 DEF Lacks
<1>8. ASSUME Emptied(new) <= t - Full + CostSince(l, at) + p PROVE Lacks(l, new)'
  <2> DEFINE k == CostSince(l, at) + p
  <2>1. k \in Int /\ CostSince(l, at)' = k
    BY <1>1, <1>6
  <2>2. Emptied(new) <= at - Full + k /\ Emptied(new) <= t - Full + k
    BY <1>1, <1>5, <1>6, <1>8, SMTT(90)
  <2> HIDE DEF k
  <2> QED
    BY <1>2, <1>7, <2>1, <2>2
<1>9. CASE Emptied(new) = t - Full + p
  BY <1>1, <1>6, <1>8, <1>9
<1>10. CASE Emptied(new) = Emptied(lim) - late + p
  <2>1. CASE lim.cancels > 0
    BY <2>1 DEF Lacks
  <2>2. CASE Emptied(lim) <= -Full
    BY <1>1, <1>6, <1>8, <1>10, <2>2
  <2>3. ASSUME NEW s \in GrantTimes(l), Enough(l, lim, s) PROVE Lacks(l, new)'
    <3> DEFINE k == CostSince(l, s) + p
    <3>1. s \in Int /\ CostSince(l, s) \in Int
      BY <1>3, <1>4
    <3>2. /\ Emptied(lim) <= s - Full + CostSince(l, s)
          /\ CostSince(l, s) >= Full \/ Emptied(lim) <= lim.last - Full + CostSince(l, s)
      BY <2>3 DEF Enough
    <3>3. k \in Int /\ k = CostSince(l, s) + p
      BY <1>1, <3>1
    <3> HIDE DEF k
    <3>4. Emptied(new) <= s - Full + k /\ (k >= Full \/ Emptied(new) <= t - Full + k)
      <4>1. Emptied(new) <= s - Full + k
        BY <1>1, <1>10, <3>1, <3>2, <3>3, SMTT(90)
      <4>2. CASE CostSince(l, s) >= Full
        BY <1>1, <3>1, <3>3, <4>1, <4>2, SMTT(90)
      <4>3. CASE Emptied(lim) <= lim.last - Full + CostSince(l, s)
        <5>1. /\ p \in Int /\ late \in Int /\ t \in Int /\ Full \in Int /\ CostSince(l, s) \in Int
              /\ Emptied(lim) \in Int /\ Emptied(new) \in Int /\ lim.last \in Int
          BY <1>1, <3>1
        <5>2. lim.last - late <= t
          OBVIOUS
        <5>3. Emptied(new) <= t - Full + (CostSince(l, s) + p)
          BY <1>10, <4>3, <5>1, <5>2, Shifted, Zenon
        <5> QED
          BY <3>3, <4>1, <5>3
      <4> QED
        BY <3>2, <4>2, <4>3
    <3>5. CASE s <= at
      <4>1. CostSince(l, s)' = k /\ s \in GrantTimes(l)'
        BY <1>2, <1>4, <3>1, <3>3, <3>5
      <4> QED
        BY <1>7, <3>3, <3>4, <4>1
    <3>6. CASE at < s
      <4> DEFINE m == CostSince(l, at) + p
      <4>1. CostSince(l, s) <= CostSince(l, at)
        <5>1. at <= s
          BY <1>1, <3>1, <3>6
        <5> QED
          BY <1>1, <3>1, <5>1, CostsNotNegative
      <4>2. m \in Int /\ k <= m /\ CostSince(l, at)' = m
        BY <1>1, <1>6, <3>1, <3>3, <4>1, SMTT(90)
      <4> HIDE DEF m
      <4>3. Emptied(new) <= at - Full + m /\ (m >= Full \/ Emptied(new) <= t - Full + m)
        <5>1. CASE k >= Full
          BY <1>1, <1>5, <3>3, <4>2, <5>1 DEF at
        <5>2. CASE Emptied(new) <= t - Full + k
          BY <1>1, <1>5, <3>3, <4>2, <5>2, SMTT(90)
        <5> QED
          BY <3>4, <5>1, <5>2
      <4> QED
        BY <1>2, <1>7, <4>2, <4>3
    <3> QED
      BY <1>1, <3>1, <3>5, <3>6
  <2> QED
    BY <2>1, <2>2, <2>3 DEF Lacks
<1> QED
  BY <1>9, <1>10 DEF p

(* A refusal leaves the level as it is: what the bucket loses is what it   *)
(* is late by.                                                             *)
LEMMA RefusalPays ==
    ASSUME LimiterInv, granted' = granted, Len(lims') = Len(lims),
           \A k \in 0 .. Len(lims) : Level(k)' = Level(k) /\ Late(k) <= Late(k)' /\ Late(k)' \in Int
    PROVE  LevelPays' /\ StretchPays'
<1>1. LimiterTypeOK /\ LevelPays /\ StretchPays /\ granted \in Seq(Events) /\ Full \in Nat
  BY PartsOfTokens DEF LimiterInv, LimiterTypeOK
<1>2. /\ \A l, s, t : Granted(l, s, t)' = Granted(l, s, t)
      /\ \A l : GrantTimes(l)' = GrantTimes(l)
  BY SameEvents
<1>3. LevelPays'
  BY <1>1, <1>2 DEF LevelPays
<1>4. ASSUME NEW k \in 0 .. Len(lims), NEW s \in Int, NEW t \in Int, s <= t
      PROVE  Granted(k, s, t) <= Full + (t - s) + Late(k)'
  <2>1. Granted(k, s, t) <= Full + (t - s) + Late(k) /\ Late(k) \in Nat /\ k \in Nat
    BY <1>1, <1>4, LevelsTyped DEF StretchPays
  <2>2. Granted(k, s, t) \in Int
    BY <1>1, <2>1, WeightsTyped
  <2>3. Late(k) <= Late(k)' /\ Late(k)' \in Int
    OBVIOUS
  <2> QED
    BY <1>1, <2>1, <2>2, <2>3
<1>5. StretchPays'
  BY <1>2, <1>4 DEF StretchPays
<1> QED
  BY <1>3, <1>5

(* What a caller of Reserve holds.                                         *)
LEMMA ReserveCall ==
    ASSUME LimiterInv, NEW c \in Callers, NEW me, me = caller[c], me.pc = "reserve"
    PROVE  /\ me \in Call /\ me.lim \in Nat \ {0} /\ me.lim \in 1 .. Len(lims) /\ me.lim \in DOMAIN lims
           /\ me.n \in Nat /\ me.n > 0
           /\ me.answer = "" /\ me.t \in Nat /\ me.max \in Nat /\ lims[me.lim] \in Bucket
           /\ lims[me.lim].tokens <= Full
           /\ option # "infinite" /\ me.max > 0 => option = "limiter" /\ me.lim = 1
           /\ option # "redis" /\ option \in Options /\ InOrder(me)
<1>1. me \in Call /\ InOrder(me) /\ lims \in Seq(Bucket) /\ option \in Options
  BY DEF LimiterInv, LimiterTypeOK, CallsInOrder
<1>2. /\ me.lim \in DOMAIN lims /\ me.n > 0 /\ me.answer = ""
      /\ option \in {"limiter", "infinite"} \/ (option = "local" /\ me.max = 0)
  BY <1>1 DEF InOrder
<1>3. me.n \in Nat /\ me.t \in Nat /\ me.max \in Nat /\ me.lim \in Nat
  BY <1>1, CallFields
<1>4. Len(lims) \in Nat /\ DOMAIN lims = 1 .. Len(lims) /\ lims[me.lim] \in Bucket
  <2>1. Len(lims) \in Nat /\ DOMAIN lims = 1 .. Len(lims) /\ \A i \in DOMAIN lims : lims[i] \in Bucket
    BY <1>1
  <2> QED
    BY <1>2, <2>1, Zenon
<1>5. lims[me.lim].tokens <= Full /\ (option \in {"limiter", "infinite"} => Len(lims) = 1)
  <2>1. /\ \A i \in DOMAIN lims : lims[i].tokens <= Full
        /\ option \in {"limiter", "infinite"} => Len(lims) = 1
    BY DEF LimiterInv, LimitersMade
  <2> QED
    BY <1>2, <2>1, Zenon
<1>6. me.lim \in 1 .. Len(lims) /\ me.lim # 0
  <2>1. me.lim \in 1 .. Len(lims)
    BY <1>2, <1>4, Zenon
  <2>2. Len(lims) \in Nat
    BY <1>4, Zenon
  <2>3. \A i \in 1 .. Len(lims) : i # 0
    BY <2>2
  <2> QED
    BY <2>1, <2>3, Zenon
<1>7. ASSUME option # "infinite", me.max > 0 PROVE option = "limiter" /\ me.lim = 1
  <2>1. option = "limiter"
    <3>1. me.max # 0
      BY <1>7
    <3>2. option = "limiter" \/ option = "infinite" \/ me.max = 0
      BY <1>2, Zenon
    <3> QED
      BY <1>7, <3>1, <3>2, Zenon
  <2>2. Len(lims) = 1
    BY <1>5, <2>1
  <2> QED
    BY <1>3, <1>6, <2>1, <2>2
<1>8. option # "redis"
  BY <1>2
<1> QED
  BY <1>1, <1>2, <1>3, <1>4, <1>5, <1>6, <1>7, <1>8

(* Writing a bucket of the same make and burst leaves the limiters made.   *)
LEMMA BucketWritten ==
    ASSUME LimiterInv, NEW l \in 1 .. Len(lims), NEW new \in Bucket, new.made = lims[l].made,
           new.tokens <= Full, lims' = [lims EXCEPT ![l] = new], UNCHANGED <<option, cached>>
    PROVE  /\ LimitersMade' /\ lims' \in Seq(Bucket) /\ Len(lims') = Len(lims) /\ DOMAIN lims' = DOMAIN lims
           /\ lims'[l] = new /\ \A k \in 1 .. Len(lims) : k # l => lims'[k] = lims[k]
<1>1. lims \in Seq(Bucket) /\ Len(lims) \in Nat /\ DOMAIN lims = 1 .. Len(lims) /\ LimitersMade
  BY DEF LimiterInv, LimiterTypeOK
<1>2. /\ lims' \in Seq(Bucket) /\ Len(lims') = Len(lims) /\ DOMAIN lims' = DOMAIN lims
      /\ lims'[l] = new /\ \A k \in 1 .. Len(lims) : k # l => lims'[k] = lims[k]
  BY <1>1
<1>3. \A k \in 1 .. Len(lims) : lims'[k].made = lims[k].made /\ lims'[k].tokens <= Full
  BY <1>1, <1>2 DEF LimitersMade
<1>4. Len(lims) > 0 => Len(lims) \in 1 .. Len(lims)
  BY <1>1
<1>5. LimitersMade'
  BY <1>1, <1>2, <1>3, <1>4 DEF LimitersMade
<1> QED
  BY <1>2, <1>5

(* The levels of the buckets that are not written stay.                    *)
LEMMA OtherLevels ==
    ASSUME LimiterTypeOK, NEW l \in 0 .. Len(lims), l # 0 => redis' = redis,
           \A k \in 1 .. Len(lims) : k # l => lims'[k] = lims[k]
    PROVE  \A k \in 0 .. Len(lims) : k # l => Level(k)' = Level(k) /\ Late(k)' = Late(k)
<1>1. ASSUME NEW k \in 0 .. Len(lims), k # l PROVE Level(k)' = Level(k) /\ Late(k)' = Late(k)
  <2>1. CASE k = 0
    BY <1>1, <2>1 DEF Level, Late, EmptiedHash
  <2>2. CASE k # 0
    <3>1. k \in 1 .. Len(lims)
      BY <2>2 DEF LimiterTypeOK
    <3> QED
      BY <1>1, <2>2, <3>1 DEF Level, Late, Emptied
  <2> QED
    BY <2>1, <2>2
<1> QED
  BY <1>1

(* LacksGranted is about each bucket and about the hash.                   *)
LEMMA LacksEach ==
    LacksGranted <=>
      /\ \A l \in DOMAIN lims : Lacks(l, lims[l])
      /\ redis # <<>> =>
           /\ redis.surplus < Burst
           /\ \E s \in GrantTimes(0) : Level(0) + TokenParts - 1 <= s - Full + CostSince(0, s)
  BY DEF LacksGranted, Lacks, Enough

(* What a bucket or the hash lacks stays granted when others grant.        *)
LEMMA OthersLack ==
    ASSUME LimiterInv, NEW l \in Nat,
           granted' = granted \/ \E e \in Events : e.lim = l /\ e.parts > 0 /\ granted' = Append(granted, e)
    PROVE  /\ \A k \in Nat : \A lim : k # l /\ Lacks(k, lim) => Lacks(k, lim)'
           /\ l # 0 => GrantTimes(0)' = GrantTimes(0) /\ \A s \in GrantTimes(0) : CostSince(0, s)' = CostSince(0, s)
<1>1. granted \in Seq(Events)
  BY DEF LimiterInv, LimiterTypeOK
<1>2. ASSUME NEW k \in Nat, k # l
      PROVE  GrantTimes(k)' = GrantTimes(k) /\ \A s \in GrantTimes(k) : CostSince(k, s)' = CostSince(k, s)
  <2>1. CASE granted' = granted
    BY <2>1, SameEvents
  <2>2. CASE \E e \in Events : e.lim = l /\ e.parts > 0 /\ granted' = Append(granted, e)
    <3>1. PICK e \in Events : e.lim = l /\ e.parts > 0 /\ granted' = Append(granted, e)
      BY <2>2
    <3>2. GrantTimes(k)' = GrantTimes(k) \cup (IF e.lim = k THEN {e.at} ELSE {})
      BY <1>1, <3>1, TimeAdded
    <3>3. GrantTimes(k) \subseteq Int
      BY <1>1, NothingGranted
    <3>4. ASSUME NEW s \in Int PROVE CostSince(k, s)' = CostSince(k, s)
      BY <1>1, <1>2, <3>1, EventAdded
    <3> QED
      BY <1>2, <3>1, <3>2, <3>3, <3>4
  <2> QED
    BY <2>1, <2>2
<1>3. ASSUME NEW k \in Nat, NEW lim, k # l, Lacks(k, lim) PROVE Lacks(k, lim)'
  BY <1>2, <1>3 DEF Lacks, Enough, Emptied
<1> QED
  BY <1>2, <1>3

(* The call that a caller of Reserve goes on with.                         *)
ReserveGoesOn(me, r) ==
  IF r.ok /\ r.act > me.t
  THEN [me EXCEPT !.pc = "wait", !.r = [act |-> r.act, n |-> r.n, event |-> Len(granted')]]
  ELSE IF r.ok THEN [Idle EXCEPT !.answer = "granted"]
  ELSE [me EXCEPT !.pc = "idle", !.answer = "refused"]

(* Reserve, by the call and the bucket that it finds.                      *)
LEMMA ReserveStep ==
    ASSUME NEW c \in Callers, Reserve(c), NEW me, me = caller[c], NEW lim, lim = lims[me.lim],
           NEW r, r = reserveN(lim, me.t, me.n, me.max)
    PROVE  /\ me.pc = "reserve" /\ lims' = [lims EXCEPT ![me.lim] = r.lim]
           /\ granted' = IF r.ok /\ option # "infinite" THEN Append(granted, Event(me.lim, r.act, me.n))
                         ELSE granted
           /\ caller' = [caller EXCEPT ![c] = ReserveGoesOn(me, r)]
           /\ UNCHANGED <<option, now, cached, redis, asks>>
  BY DEF Reserve, ReserveGoesOn

(* A call that is done: granted.                                           *)
LEMMA DoneInOrder ==
    ASSUME LimiterInv, NEW call, call = [Idle EXCEPT !.answer = "granted"]
    PROVE  call \in Call /\ InOrder(call) /\ ~Waiting(call) /\ call.answer = "granted"
<1>1. "granted" \in Answers /\ 0 \in 0 .. Len(lims)
  BY DEF Answers, LimiterInv, LimiterTypeOK
<1>2. call \in Call /\ call.pc = "idle" /\ call.lim = 0 /\ call.answer = "granted"
  BY <1>1, IdleTyped DEF Call
<1>3. InOrder(call) /\ ~Waiting(call)
  BY <1>1, <1>2 DEF InOrder, Waiting
<1> QED
  BY <1>2, <1>3

(* A limit of Inf grants at once and counts nothing.                       *)
LEMMA ReserveInfinite ==
    ASSUME LimiterInv, NEW c \in Callers, Reserve(c), option = "infinite"
    PROVE  LimiterInv'
<1>1. PICK me : me = caller[c]
  OBVIOUS
<1>2. PICK lim : lim = lims[me.lim]
  OBVIOUS
<1>3. PICK r : r = reserveN(lim, me.t, me.n, me.max)
  OBVIOUS
<1>4. /\ me.pc = "reserve" /\ lims' = [lims EXCEPT ![me.lim] = r.lim]
      /\ granted' = IF r.ok /\ option # "infinite" THEN Append(granted, Event(me.lim, r.act, me.n))
                    ELSE granted
      /\ caller' = [caller EXCEPT ![c] = ReserveGoesOn(me, r)]
      /\ UNCHANGED <<option, now, cached, redis, asks>>
  BY <1>1, <1>2, <1>3, ReserveStep
<1>5. me.t \in Nat /\ me.lim \in DOMAIN lims /\ lims \in Seq(Bucket)
  BY <1>1, <1>4, ReserveCall DEF LimiterInv, LimiterTypeOK
<1>6. r.ok = TRUE /\ r.act = me.t /\ r.lim = lim
  BY <1>3 DEF reserveN
<1>7. lims' = lims /\ granted' = granted
  <2>1. lims' = [lims EXCEPT ![me.lim] = lims[me.lim]]
    BY <1>2, <1>4, <1>6
  <2> QED
    BY <1>4, <1>5, <2>1
<1> DEFINE call == [Idle EXCEPT !.answer = "granted"]
<1>8. ReserveGoesOn(me, r) = call
  <2>1. ~(r.act > me.t)
    BY <1>5, <1>6
  <2> QED
    BY <1>6, <2>1 DEF ReserveGoesOn
<1>9. call \in Call /\ InOrder(call) /\ ~Waiting(call) /\ call.answer = "granted"
  BY DoneInOrder
<1> HIDE DEF call
<1>10. caller' = [caller EXCEPT ![c] = call]
  BY <1>4, <1>8
<1>11. now' \in Nat /\ asks' \in Nat
  BY <1>4 DEF LimiterInv, LimiterTypeOK
<1>12. call.answer # "refused"
  BY <1>9
<1>13. UNCHANGED <<option, lims, cached, redis, granted>>
  BY <1>4, <1>7
<1> QED
  BY <1>9, <1>10, <1>11, <1>12, <1>13, CallMovesOn

(* The other refusals stay justified.                                      *)
LEMMA RefusalsStay ==
    ASSUME LimiterInv, NEW c \in Callers, NEW call \in Call, caller' = [caller EXCEPT ![c] = call],
           call.answer = "refused" => Justified(call), call.lim \in 0 .. Len(lims), UNCHANGED option,
           granted' = granted \/ \E e \in Events : e.parts > 0 /\ granted' = Append(granted, e),
           \A k \in 1 .. Len(lims) : lims'[k].cancels = lims[k].cancels
    PROVE  NoNeedlessRefusal'
<1>1. caller \in [Callers -> Call] /\ CallsInOrder /\ NoNeedlessRefusal
  BY DEF LimiterInv, LimiterTypeOK
<1>2. ASSUME NEW d \in Callers, caller'[d].answer = "refused" PROVE Justified(caller[d])'
  <2>1. PICK it : it = caller'[d]
    OBVIOUS
  <2>2. it \in Call /\ Justified(it) /\ it.lim \in 0 .. Len(lims)
    <3>1. CASE d = c
      <4>1. it = call
        BY <1>1, <2>1, <3>1
      <4> QED
        BY <1>2, <2>1, <4>1
    <3>2. CASE d # c
      <4>1. it = caller[d]
        BY <1>1, <2>1, <3>2
      <4> QED
        BY <1>1, <1>2, <2>1, <4>1 DEF NoNeedlessRefusal, CallsInOrder, InOrder
    <3> QED
      BY <3>1, <3>2
  <2>3. Justified(it)'
    BY <2>2, StaysJustified
  <2> QED
    BY <2>1, <2>3 DEF Justified
<1> QED
  BY <1>2 DEF NoNeedlessRefusal

(* A refusal: the bucket is late by more, and the caller has asked for     *)
(* more than it had.                                                       *)
Refuses(c, me, l, lim, new, late, p) ==
  /\ me.lim = l /\ p = me.n * TokenParts /\ option # "infinite"
  /\ lim = lims[l] /\ lims' = [lims EXCEPT ![l] = new] /\ granted' = granted
  /\ caller' = [caller EXCEPT ![c] = [me EXCEPT !.pc = "idle", !.answer = "refused"]]
  /\ UNCHANGED <<option, now, cached, redis, asks>>
  /\ new.tokens <= Full /\ new.made = lim.made /\ new.cancels = lim.cancels
  /\ new.excess = lim.excess /\ new.back = lim.back + late
  /\ Emptied(new) = Emptied(lim) - late /\ new.last = lim.last - late
  /\ me.n <= Burst => Emptied(lim) - late + p > me.t + me.max

(* It keeps the invariant.                                                 *)
LEMMA RefusalKeeps ==
    ASSUME LimiterInv, NEW c \in Callers, NEW me \in Call, NEW l \in 1 .. Len(lims), NEW lim \in Bucket,
           NEW new \in Bucket, NEW late \in Nat, NEW p \in Nat, Refuses(c, me, l, lim, new, late, p)
    PROVE  LimiterInv'
<1>1. /\ lim = lims[l] /\ lims' = [lims EXCEPT ![l] = new]
      /\ caller' = [caller EXCEPT ![c] = [me EXCEPT !.pc = "idle", !.answer = "refused"]]
      /\ UNCHANGED <<option, now, cached, redis, asks>>
  BY DEF Refuses
<1>2. me.lim \in Nat /\ me.n \in Nat /\ me.t \in Nat /\ me.max \in Nat
  BY CallFields
<1>3. l = me.lim
  BY DEF Refuses
<1>4. p = me.n * TokenParts
  BY DEF Refuses
<1>5. /\ new.tokens <= Full
      /\ new.made = lim.made /\ new.cancels = lim.cancels
      /\ new.excess = lim.excess /\ new.back = lim.back + late
      /\ Emptied(new) = Emptied(lim) - late /\ new.last = lim.last - late
      /\ me.n <= Burst => Emptied(lim) - late + p > me.t + me.max
  BY DEF Refuses
<1>6. granted' = granted
  BY DEF Refuses
<1>7. option # "infinite"
  BY DEF Refuses
<1>8. l \in Nat \ {0} /\ l \in DOMAIN lims /\ l \in 0 .. Len(lims)
  BY DEF LimiterInv, LimiterTypeOK
<1>9. /\ LimitersMade' /\ lims' \in Seq(Bucket) /\ Len(lims') = Len(lims) /\ DOMAIN lims' = DOMAIN lims
       /\ lims'[l] = new /\ \A k \in 1 .. Len(lims) : k # l => lims'[k] = lims[k]
  BY <1>1, <1>5, BucketWritten
<1> DEFINE call == [me EXCEPT !.pc = "idle", !.answer = "refused"]
<1>10. /\ call \in Call /\ call.pc = "idle" /\ call.answer = "refused" /\ call.lim = me.lim /\ call.n = me.n
       /\ call.max = me.max /\ call.t = me.t
  <2>1. "idle" \in Steps /\ "refused" \in Answers
    BY DEF Steps, Answers
  <2> QED
    BY <2>1 DEF Call
<1>11. caller' = [caller EXCEPT ![c] = call]
  BY <1>1
<1> HIDE DEF call
<1>12. LimiterTypeOK /\ caller \in [Callers -> Call] /\ granted \in Seq(Events) /\ Len(lims) \in Nat
       /\ DOMAIN lims = 1 .. Len(lims)
  BY DEF LimiterInv, LimiterTypeOK
<1>13. LimiterTypeOK'
  <2>1. caller' \in [Callers -> Call]
    BY <1>10, <1>11, <1>12
  <2> QED
    BY <1>1, <1>6, <1>9, <1>12, <2>1 DEF LimiterTypeOK
<1>14. /\ lim.back \in Nat /\ lim.excess \in Nat /\ Emptied(lim) \in Int /\ lim.last \in Int
       /\ new.back \in Nat /\ new.excess \in Nat /\ Emptied(new) \in Int /\ new.last \in Int
       /\ new.excess = lim.excess /\ new.back = lim.back + late /\ late \in Nat
       /\ Emptied(new) = Emptied(lim) - late /\ new.last = lim.last - late
  BY <1>5, BucketFields
<1>15. /\ Level(l)' = Emptied(new) + (new.back + new.excess) /\ Late(l)' = new.back + new.excess
       /\ Level(l) = Emptied(lim) + (lim.back + lim.excess) /\ Late(l) = lim.back + lim.excess
  BY <1>1, <1>8, <1>9 DEF Level, Late, Emptied
<1>16. Level(l)' = Level(l) /\ Late(l) <= Late(l)' /\ Late(l)' \in Int
  <2>1. /\ Level(l)' = (Emptied(lim) - late) + ((lim.back + late) + lim.excess)
        /\ Late(l)' = (lim.back + late) + lim.excess
    BY <1>14, <1>15, Zenon
  <2>2. ASSUME NEW e \in Int, NEW b \in Nat, NEW x \in Nat
        PROVE  /\ (e - late) + ((b + late) + x) = e + (b + x)
               /\ b + x <= (b + late) + x /\ (b + late) + x \in Int
    OBVIOUS
  <2>3. /\ (Emptied(lim) - late) + ((lim.back + late) + lim.excess) = Emptied(lim) + (lim.back + lim.excess)
        /\ lim.back + lim.excess <= (lim.back + late) + lim.excess
        /\ (lim.back + late) + lim.excess \in Int
    BY <1>14, <2>2, Zenon
  <2> QED
    BY <1>15, <2>1, <2>3, Zenon
<1>17. LevelPays' /\ StretchPays'
  <2>1. \A k \in 0 .. Len(lims) : k # l => Level(k)' = Level(k) /\ Late(k)' = Late(k)
    BY <1>1, <1>8, <1>9, <1>12, OtherLevels
  <2>2. \A k \in 0 .. Len(lims) : Late(k) \in Nat
    BY <1>12, LevelsTyped
  <2>3. ASSUME NEW k \in 0 .. Len(lims)
        PROVE  Level(k)' = Level(k) /\ Late(k) <= Late(k)' /\ Late(k)' \in Int
    <3>1. CASE k = l
      BY <1>16, <3>1
    <3>2. CASE k # l
      BY <2>1, <2>2, <3>2
    <3> QED
      BY <3>1, <3>2
  <2> QED
    BY <1>6, <1>9, <2>3, RefusalPays
<1>18. Lacks(l, lim)
  BY <1>1, <1>8, LacksEach DEF LimiterInv
<1>19. LacksGranted'
  <2>1. /\ \A k, s : CostSince(k, s)' = CostSince(k, s)
        /\ \A k : GrantTimes(k)' = GrantTimes(k)
    BY <1>6, SameEvents
  <2>2. Lacks(l, new)'
    <3>1. new.cancels = lim.cancels /\ Full \in Nat
      BY <1>5, PartsOfTokens
    <3>2. CASE lim.cancels > 0
      BY <3>1, <3>2 DEF Lacks
    <3>3. CASE Emptied(lim) <= -Full
      <4>1. Emptied(new) <= -Full
        BY <1>14, <3>1, <3>3
      <4> QED
        BY <4>1 DEF Lacks, Emptied
    <3>4. ASSUME NEW s \in GrantTimes(l), Enough(l, lim, s) PROVE Lacks(l, new)'
      <4>1. CostSince(l, s) \in Int /\ s \in Int
        <5>1. s \in Int
          BY <1>8, <1>12, NothingGranted
        <5> QED
          BY <1>8, <1>12, <5>1, CostsNotNegative
      <4>2. /\ Emptied(lim) <= s - Full + CostSince(l, s)
            /\ CostSince(l, s) >= Full \/ Emptied(lim) <= lim.last - Full + CostSince(l, s)
        BY <3>4 DEF Enough
      <4>3. Emptied(new) <= s - Full + CostSince(l, s)
        BY <1>14, <3>1, <4>1, <4>2
      <4>4. Emptied(lim) <= lim.last - Full + CostSince(l, s) => Emptied(new) <= new.last - Full + CostSince(l, s)
        BY <1>14, <3>1, <4>1, SMTT(90)
      <4>5. Enough(l, new, s)'
        BY <2>1, <4>2, <4>3, <4>4 DEF Enough, Emptied
      <4> QED
        BY <2>1, <4>5 DEF Lacks
    <3> QED
      BY <1>18, <3>2, <3>3, <3>4 DEF Lacks
  <2>3. ASSUME NEW k \in DOMAIN lims' PROVE Lacks(k, lims[k])'
    <3>1. CASE k = l
      BY <1>9, <2>2, <3>1 DEF Lacks, Enough, Emptied
    <3>2. CASE k # l
      <4>1. Lacks(k, lims[k]) /\ lims'[k] = lims[k]
        BY <1>9, <1>12, <3>2, LacksEach DEF LimiterInv
      <4> QED
        BY <2>1, <4>1 DEF Lacks, Enough, Emptied
    <3> QED
      BY <3>1, <3>2
  <2>4. redis' = redis /\ Level(0)' = Level(0)
    BY <1>1 DEF Level, EmptiedHash
  <2> QED
    BY <2>1, <2>3, <2>4, LacksEach DEF LimiterInv, LacksGranted, Lacks, Enough, Emptied
<1>20. EventsInOrder'
  BY <1>1, <1>6, <1>9 DEF LimiterInv, EventsInOrder
<1>21. InOrder(call) /\ ~Waiting(call)
  <2>1. call.lim \in 0 .. Len(lims) /\ call.lim # 0
    BY <1>3, <1>8, <1>10
  <2> QED
    BY <1>10, <2>1 DEF InOrder, Waiting
<1>22. CallsInOrder'
  <2>1. \A d \in Callers \ {c} : Waiting(caller[d]) =>
          caller[d].r.event \in DOMAIN granted' /\ granted'[caller[d].r.event] = granted[caller[d].r.event]
    BY <1>6 DEF LimiterInv, CallsInOrder, HoldsEvent
  <2> QED
    BY <1>1, <1>9, <1>10, <1>11, <1>21, <2>1, OthersWait
<1>23. Justified(call)
  <2>1. Full \in Nat /\ p \in Nat /\ (me.n <= Burst => p <= Full) /\ Burst \in Nat
    BY <1>2, <1>4, PartsOfTokens
  <2>2. CASE me.n > Burst
    BY <1>7, <1>10, <2>2 DEF Justified
  <2>3. CASE me.n <= Burst
    <3>1. Emptied(lim) - late + p > me.t + me.max /\ p <= Full
      BY <1>5, <2>1, <2>3
    <3>2. CASE lim.cancels > 0
      BY <1>1, <1>3, <1>7, <1>8, <1>10, <3>2 DEF Justified
    <3>3. CASE Emptied(lim) <= -Full
      BY <1>2, <1>14, <2>1, <3>1, <3>3
    <3>4. ASSUME NEW s \in GrantTimes(l), Enough(l, lim, s) PROVE Justified(call)
      <4>1. CostSince(l, s) \in Int /\ s \in Int
        <5>1. s \in Int
          BY <1>8, <1>12, NothingGranted
        <5> QED
          BY <1>8, <1>12, <5>1, CostsNotNegative
      <4>2. Emptied(lim) <= s - Full + CostSince(l, s)
        BY <3>4 DEF Enough
      <4>3. CostSince(l, s) + p > Full + me.max + (me.t - s)
        <5>1. ASSUME NEW e \in Int, NEW t \in Nat, NEW max \in Nat, NEW k \in Int,
                     e - late + p > t + max, e <= s - Full + k
              PROVE  k + p > Full + max + (t - s)
          BY <2>1, <4>1, <5>1
        <5> QED
          BY <1>2, <1>14, <3>1, <4>1, <4>2, <5>1, Zenon
      <4>4. CostSince(call.lim, s) + call.n * TokenParts > Full + call.max + (call.t - s) /\ s \in GrantTimes(call.lim)
        BY <1>3, <1>4, <1>10, <3>4, <4>3
      <4> QED
        BY <1>7, <4>4 DEF Justified
    <3> QED
      BY <1>18, <3>2, <3>3, <3>4 DEF Lacks
  <2> QED
    BY <1>2, <2>1, <2>2, <2>3
<1>24. NoNeedlessRefusal'
  <2>1. \A k \in 1 .. Len(lims) : lims'[k].cancels = lims[k].cancels
    BY <1>1, <1>5, <1>9
  <2>2. call.lim \in 0 .. Len(lims)
    BY <1>3, <1>8, <1>10
  <2> QED
    BY <1>1, <1>6, <1>10, <1>11, <1>23, <2>1, <2>2, RefusalsStay
<1> QED
  BY <1>9, <1>13, <1>17, <1>19, <1>20, <1>22, <1>24 DEF LimiterInv

(* A grant: the bucket is empty later by what is granted, or had been      *)
(* full; and the caller waits for its event if that is still to come.      *)
GrantGoesOn(me, act) ==
  IF act > me.t THEN [me EXCEPT !.pc = "wait", !.r = [act |-> act, n |-> me.n, event |-> Len(granted')]]
  ELSE [Idle EXCEPT !.answer = "granted"]
Grants(c, me, l, lim, new, late, p, act) ==
  /\ me.lim = l /\ p = me.n * TokenParts /\ me.n > 0 /\ me.n <= Burst /\ me.answer = ""
  /\ me.max > 0 => option = "limiter" /\ l = 1
  /\ lim = lims[l] /\ lims' = [lims EXCEPT ![l] = new] /\ granted' = Append(granted, Event(l, act, me.n))
  /\ caller' = [caller EXCEPT ![c] = GrantGoesOn(me, act)]
  /\ UNCHANGED <<option, now, cached, redis, asks>>
  /\ new.tokens <= Full /\ new.made = lim.made /\ new.cancels = lim.cancels
  /\ new.excess = lim.excess /\ new.back = lim.back + late /\ new.last = me.t
  /\ lim.last - late <= me.t /\ me.t <= act /\ act <= me.t + me.max
  /\ Emptied(new) <= act /\ Emptied(lim) - late + p <= Emptied(new) /\ act + p <= Full + Emptied(new)
  /\ Emptied(new) = Emptied(lim) - late + p \/ (Emptied(new) = me.t - Full + p /\ act = me.t)

(* It keeps the invariant.                                                 *)
LEMMA GrantKeeps ==
    ASSUME LimiterInv, NEW c \in Callers, NEW me \in Call, NEW l \in 1 .. Len(lims), NEW lim \in Bucket,
           NEW new \in Bucket, NEW late \in Nat, NEW p \in Nat, NEW act \in Int,
           Grants(c, me, l, lim, new, late, p, act)
    PROVE  LimiterInv'
<1>1. /\ lim = lims[l] /\ lims' = [lims EXCEPT ![l] = new]
      /\ caller' = [caller EXCEPT ![c] = GrantGoesOn(me, act)]
      /\ UNCHANGED <<option, now, cached, redis, asks>>
  BY DEF Grants
<1>2. me.lim \in Nat /\ me.n \in Nat /\ me.t \in Nat /\ me.max \in Nat
  BY CallFields
<1>3. l = me.lim /\ p = me.n * TokenParts /\ me.n > 0 /\ me.n <= Burst /\ me.answer = ""
  BY DEF Grants
<1>4. /\ new.tokens <= Full /\ new.made = lim.made /\ new.cancels = lim.cancels
      /\ new.excess = lim.excess /\ new.back = lim.back + late /\ new.last = me.t
      /\ lim.last - late <= me.t /\ me.t <= act /\ act <= me.t + me.max
      /\ Emptied(new) <= act /\ Emptied(lim) - late + p <= Emptied(new) /\ act + p <= Full + Emptied(new)
      /\ Emptied(new) = Emptied(lim) - late + p \/ (Emptied(new) = me.t - Full + p /\ act = me.t)
  BY DEF Grants
<1>5. PICK e : e = Event(l, act, me.n)
  OBVIOUS
<1>6. l \in Nat \ {0} /\ l \in DOMAIN lims /\ l \in 0 .. Len(lims)
  BY DEF LimiterInv, LimiterTypeOK
<1>7. e \in Events /\ e.lim = l /\ e.at = act /\ e.parts = p
  <2>1. l \in Nat
    BY <1>6
  <2>2. /\ Event(l, act, me.n) \in Events /\ Event(l, act, me.n).lim = l /\ Event(l, act, me.n).at = act
        /\ Event(l, act, me.n).parts = me.n * TokenParts
    <3>1. me.n * TokenParts \in Nat
      BY <1>2, PartsOfTokens
    <3> QED
      BY <1>2, <2>1, <3>1 DEF Event, Events
  <2>3. e.parts = p
    BY <1>3, <1>5, <2>2
  <2>4. e \in Events /\ e.lim = l /\ e.at = act
    BY <1>5, <2>2, Zenon
  <2> QED
    BY <2>3, <2>4
<1>8. p > 0 /\ Full \in Nat /\ Burst \in Nat
  BY <1>2, <1>3, PartsOfTokens
<1>9. granted' = Append(granted, e)
  BY <1>5 DEF Grants
<1>10. /\ LimitersMade' /\ lims' \in Seq(Bucket) /\ Len(lims') = Len(lims) /\ DOMAIN lims' = DOMAIN lims
       /\ lims'[l] = new /\ \A k \in 1 .. Len(lims) : k # l => lims'[k] = lims[k]
  BY <1>1, <1>4, BucketWritten
<1>11. /\ LimiterTypeOK /\ caller \in [Callers -> Call] /\ granted \in Seq(Events) /\ Len(lims) \in Nat
       /\ DOMAIN lims = 1 .. Len(lims) /\ Len(granted) \in Nat
  BY DEF LimiterInv, LimiterTypeOK
<1>12. /\ granted' \in Seq(Events) /\ Len(granted') = Len(granted) + 1 /\ DOMAIN granted' = 1 .. Len(granted) + 1
       /\ granted'[Len(granted) + 1] = e /\ \A i \in DOMAIN granted : granted'[i] = granted[i] /\ i \in DOMAIN granted'
       /\ DOMAIN granted = 1 .. Len(granted)
  BY <1>7, <1>9, <1>11
<1>13. PICK call : call = GrantGoesOn(me, act)
  OBVIOUS
<1>14. \/ /\ act > me.t /\ call \in Call /\ call.pc = "wait" /\ call.answer = "" /\ call.lim = l
          /\ call.r.act = act /\ call.r.n = me.n /\ call.r.event = Len(granted) + 1
       \/ call \in Call /\ InOrder(call) /\ ~Waiting(call) /\ call.answer = "granted"
  <2>1. CASE act > me.t
    <3> DEFINE r == [act |-> act, n |-> me.n, event |-> Len(granted) + 1]
               delay == [me EXCEPT !.pc = "wait", !.r = r]
    <3>1. r \in Reservation /\ r.act = act /\ r.n = me.n /\ r.event = Len(granted) + 1
      BY <1>2, <1>11 DEF Reservation
    <3>2. call = delay
      BY <1>12, <1>13, <2>1 DEF GrantGoesOn
    <3>3. "wait" \in Steps
      BY DEF Steps
    <3> HIDE DEF r
    <3>4. delay \in Call /\ delay.pc = "wait" /\ delay.answer = me.answer /\ delay.lim = me.lim /\ delay.r = r
      BY <3>1, <3>3 DEF Call
    <3> HIDE DEF delay
    <3> QED
      BY <1>3, <2>1, <3>1, <3>2, <3>4
  <2>2. CASE ~(act > me.t)
    <3>1. call = [Idle EXCEPT !.answer = "granted"]
      BY <1>13, <2>2 DEF GrantGoesOn
    <3>2. call \in Call /\ InOrder(call) /\ ~Waiting(call) /\ call.answer = "granted"
      BY <3>1, DoneInOrder
    <3> QED
      BY <3>2
  <2> QED
    BY <2>1, <2>2
<1>15. caller' = [caller EXCEPT ![c] = call] /\ call \in Call
  BY <1>1, <1>13, <1>14
<1>16. LimiterTypeOK'
  <2>1. caller' \in [Callers -> Call]
    BY <1>11, <1>15
  <2> QED
    BY <1>1, <1>10, <1>11, <1>12, <2>1 DEF LimiterTypeOK
<1>17. EventsInOrder'
  <2>1. ASSUME NEW i \in DOMAIN granted'
        PROVE  /\ granted'[i].lim \in 0 .. Len(lims)
               /\ granted'[i].lim = 0 => redis # <<>> /\ granted'[i].at <= redis.last
    <3>1. CASE i \in DOMAIN granted
      BY <1>12, <3>1 DEF LimiterInv, EventsInOrder
    <3>2. CASE i = Len(granted) + 1
      <4>1. granted'[i].lim = l
        BY <1>7, <1>12, <3>2
      <4> QED
        BY <1>6, <4>1
    <3> QED
      BY <1>11, <1>12, <3>1, <3>2
  <2> QED
    BY <1>1, <1>10, <2>1 DEF EventsInOrder
<1>18. InOrder(call) /\ call.lim \in 0 .. Len(lims) /\ call.answer # "refused"
  <2>1. CASE call.pc = "wait" /\ call.answer = "" /\ call.lim = l
    <3>1. call.answer # "refused" /\ call.lim \in 0 .. Len(lims)
      BY <1>6, <2>1
    <3> QED
      BY <2>1, <3>1 DEF InOrder
  <2>2. CASE InOrder(call) /\ call.answer = "granted"
    BY <2>2 DEF InOrder
  <2> QED
    BY <1>14, <2>1, <2>2
<1>19. CallsInOrder'
  <2>1. ASSUME NEW d \in Callers \ {c}, Waiting(caller[d])
        PROVE  /\ caller[d].r.event \in DOMAIN granted' /\ caller[d].r.event # Len(granted) + 1
               /\ granted'[caller[d].r.event] = granted[caller[d].r.event]
    <3>1. caller[d].r.event \in DOMAIN granted
      BY <2>1 DEF LimiterInv, CallsInOrder, HoldsEvent
    <3>2. \A i \in DOMAIN granted : i # Len(granted) + 1
      BY <1>11, <1>12
    <3> QED
      BY <1>12, <3>1, <3>2
  <2>2. ASSUME Waiting(call)
        PROVE  /\ option = "limiter" /\ call.lim = 1 /\ call.r.n \in 1 .. Burst
               /\ call.r.event \in DOMAIN granted' /\ granted'[call.r.event] = Event(1, call.r.act, call.r.n)
               /\ call.r.event = Len(granted) + 1
    <3>1. act > me.t /\ call.lim = l /\ call.r.act = act /\ call.r.n = me.n /\ call.r.event = Len(granted) + 1
      BY <1>14, <2>2
    <3>2. me.max > 0
      BY <1>2, <1>4, <3>1
    <3>3. option = "limiter" /\ l = 1
      BY <3>2 DEF Grants
    <3>4. me.n \in 1 .. Burst /\ Len(granted) + 1 \in DOMAIN granted'
      <4>1. me.n \in 1 .. Burst
        <5>1. me.n > 0 /\ me.n <= Burst
          BY <1>3, Zenon
        <5> QED
          BY <1>2, <1>8, <5>1
      <4>2. Len(granted) + 1 \in 1 .. Len(granted) + 1
        BY <1>11
      <4> QED
        BY <1>12, <4>1, <4>2, Zenon
    <3> QED
      BY <1>5, <1>12, <3>1, <3>3, <3>4
  <2>3. InOrder(call) /\ UNCHANGED option
    BY <1>1, <1>18
  <2>4. \A d \in Callers \ {c} : Waiting(caller[d]) =>
          caller[d].r.event \in DOMAIN granted' /\ granted'[caller[d].r.event] = granted[caller[d].r.event]
    BY <2>1
  <2>5. Waiting(call) =>
          /\ option = "limiter" /\ call.lim = 1 /\ call.r.n \in 1 .. Burst
          /\ call.r.event \in DOMAIN granted' /\ granted'[call.r.event] = Event(1, call.r.act, call.r.n)
          /\ \A d \in Callers \ {c} : Waiting(caller[d]) => caller[d].r.event # call.r.event
    BY <2>1, <2>2
  <2> QED
    BY <1>10, <1>15, <2>3, <2>4, <2>5, OthersWait
<1>20. /\ lim.back \in Nat /\ lim.excess \in Nat /\ Emptied(lim) \in Int /\ lim.last \in Int
       /\ new.back \in Nat /\ new.excess \in Nat /\ Emptied(new) \in Int /\ new.last \in Int
  BY BucketFields
<1>21. /\ Level(l)' = Emptied(new) + (new.back + new.excess) /\ Late(l)' = new.back + new.excess
       /\ Level(l) = Emptied(lim) + (lim.back + lim.excess) /\ Late(l) = lim.back + lim.excess
  BY <1>1, <1>6, <1>10 DEF Level, Late, Emptied
<1>22. PaidFor(l, e)
  <2>1. \A k \in 0 .. Len(lims) : k # l => Level(k)' = Level(k) /\ Late(k)' = Late(k)
    BY <1>1, <1>6, <1>10, <1>11, OtherLevels
  <2>2. ASSUME NEW a \in Int, NEW b \in Int, NEW h \in Nat, NEW x \in Nat,
               b <= act, a - late + p <= b, act + p <= Full + b
        PROVE  /\ b + ((h + late) + x) \in Int /\ (h + late) + x \in Int /\ h + x <= (h + late) + x
               /\ a + (h + x) + p <= b + ((h + late) + x)
               /\ act + p <= Full + (b + ((h + late) + x)) /\ b + ((h + late) + x) <= act + ((h + late) + x)
    BY <1>8, <2>2
  <2>3. /\ Level(l)' = Emptied(new) + ((lim.back + late) + lim.excess)
        /\ Late(l)' = (lim.back + late) + lim.excess
    BY <1>4, <1>21, Zenon
  <2> DEFINE b == Emptied(new)
             x == (lim.back + late) + lim.excess
             y == lim.back + lim.excess
  <2>4. /\ b + x \in Int /\ x \in Int /\ y <= x
        /\ Emptied(lim) + y + p <= b + x
        /\ act + p <= Full + (b + x) /\ b + x <= act + x
    BY <1>4, <1>20, <2>2, Zenon
  <2>5. Level(l)' = b + x /\ Late(l)' = x /\ Level(l) = Emptied(lim) + y /\ Late(l) = y
    BY <1>21, <2>3, Zenon
  <2> HIDE DEF b, x, y
  <2> QED
    BY <1>7, <1>8, <1>9, <1>10, <2>1, <2>4, <2>5 DEF PaidFor
<1>23. LevelPays' /\ StretchPays'
  BY <1>6, <1>7, <1>22, GrantPays
<1>24. LacksGranted'
  <2>1. Lacks(l, lim)
    BY <1>1, <1>6, LacksEach DEF LimiterInv
  <2>2. Lacks(l, new)'
    BY <1>2, <1>4, <1>6, <1>7, <1>8, <1>9, <1>11, <2>1, GrantLacks
  <2>3. /\ \A k \in Nat : \A b : k # l /\ Lacks(k, b) => Lacks(k, b)'
        /\ GrantTimes(0)' = GrantTimes(0) /\ \A s \in GrantTimes(0) : CostSince(0, s)' = CostSince(0, s)
    BY <1>6, <1>7, <1>8, <1>9, OthersLack
  <2>4. ASSUME NEW k \in DOMAIN lims' PROVE Lacks(k, lims[k])'
    <3>1. CASE k = l
      BY <1>10, <2>2, <3>1 DEF Lacks, Enough, Emptied
    <3>2. CASE k # l
      <4>1. PICK b : b = lims[k]
        OBVIOUS
      <4>2. Lacks(k, b) /\ lims'[k] = b /\ k \in Nat
        BY <1>10, <1>11, <3>2, <4>1, LacksEach DEF LimiterInv
      <4>3. Lacks(k, b)'
        BY <2>3, <3>2, <4>2
      <4> QED
        BY <4>2, <4>3 DEF Lacks, Enough, Emptied
    <3> QED
      BY <3>1, <3>2
  <2>5. redis' = redis /\ Level(0)' = Level(0)
    BY <1>1 DEF Level, EmptiedHash
  <2>6. \A k \in DOMAIN lims' :
          lims'[k].cancels > 0 \/ Emptied(lims[k])' <= -Full
          \/ \E s \in GrantTimes(k)' :
               /\ Emptied(lims[k])' <= s - Full + CostSince(k, s)'
               /\ CostSince(k, s)' >= Full \/ Emptied(lims[k])' <= lims'[k].last - Full + CostSince(k, s)'
    BY <2>4 DEF Lacks, Enough
  <2>7. (redis # <<>> =>
           /\ redis.surplus < Burst
           /\ \E s \in GrantTimes(0) : Level(0) + TokenParts - 1 <= s - Full + CostSince(0, s))'
    BY <2>3, <2>5 DEF LimiterInv, LacksGranted
  <2> QED
    BY <2>6, <2>7 DEF LacksGranted
<1>25. NoNeedlessRefusal'
  <2>1. \A k \in 1 .. Len(lims) : lims'[k].cancels = lims[k].cancels
    BY <1>1, <1>4, <1>10
  <2>2. \E f \in Events : f.parts > 0 /\ granted' = Append(granted, f)
    BY <1>7, <1>8, <1>9
  <2> QED
    BY <1>1, <1>15, <1>18, <2>1, <2>2, RefusalsStay
<1> QED
  BY <1>10, <1>16, <1>17, <1>19, <1>23, <1>24, <1>25 DEF LimiterInv

(* Reserve keeps the invariant, whatever the time of the call.             *)
LEMMA ReserveKeeps ==
    ASSUME LimiterInv, NEW c \in Callers, Reserve(c)
    PROVE  LimiterInv'
<1>1. CASE option = "infinite"
  BY <1>1, ReserveInfinite
<1>2. CASE option # "infinite"
  <2>1. PICK me : me = caller[c]
    OBVIOUS
  <2>2. PICK lim : lim = lims[me.lim]
    OBVIOUS
  <2>3. PICK r : r = reserveN(lim, me.t, me.n, me.max)
    OBVIOUS
  <2>4. /\ me.pc = "reserve" /\ lims' = [lims EXCEPT ![me.lim] = r.lim]
        /\ granted' = IF r.ok /\ option # "infinite" THEN Append(granted, Event(me.lim, r.act, me.n))
                      ELSE granted
        /\ caller' = [caller EXCEPT ![c] = ReserveGoesOn(me, r)]
        /\ UNCHANGED <<option, now, cached, redis, asks>>
    BY <2>1, <2>2, <2>3, ReserveStep
  <2>5. me.pc = "reserve"
    BY <2>4
  <2>6. /\ me \in Call /\ me.lim \in 1 .. Len(lims)
        /\ me.n \in Nat /\ me.n > 0
        /\ me.answer = "" /\ me.t \in Nat /\ me.max \in Nat /\ lims[me.lim] \in Bucket
        /\ lims[me.lim].tokens <= Full
        /\ me.max > 0 => option = "limiter" /\ me.lim = 1
    BY <1>2, <2>1, <2>5, ReserveCall
  <2>7. lim \in Bucket /\ lim.tokens <= Full
    BY <2>2, <2>6
  <2>8. PICK p : p = me.n * TokenParts
    OBVIOUS
  <2>9. PICK late : late = Later(lim.last - me.t, 0)
    OBVIOUS
  <2>10. /\ r.ok \in BOOLEAN /\ r.act \in Int /\ r.n = me.n
         /\ r.lim \in Bucket /\ r.lim.tokens <= Full
         /\ r.lim.made = lim.made /\ r.lim.cancels = lim.cancels
         /\ r.lim.excess = lim.excess /\ r.lim.back = lim.back + late /\ late \in Nat
         /\ r.ok => /\ me.n <= Burst /\ me.t <= r.act /\ r.act <= me.t + me.max /\ r.lim.last = me.t
                    /\ Emptied(r.lim) <= r.act
                    /\ Emptied(lim) - late + p <= Emptied(r.lim)
                    /\ r.act + p <= Full + Emptied(r.lim)
                    /\ \/ Emptied(r.lim) = Emptied(lim) - late + p
                       \/ Emptied(r.lim) = me.t - Full + p /\ r.act = me.t
         /\ ~r.ok => /\ Emptied(r.lim) = Emptied(lim) - late /\ r.lim.last = lim.last - late
                     /\ me.n <= Burst => Emptied(lim) - late + p > me.t + me.max
    <3>1. Takes(lim, me.t, me.n, me.max, r, late, p)
      BY <1>2, <2>3, <2>6, <2>7, <2>8, <2>9, ReserveTakes, Zenon
    <3> QED
      BY <3>1 DEF Takes
  <2>11. p \in Nat
    BY <2>6, <2>8, PartsOfTokens
  <2>12. CASE ~r.ok
    <3>1. granted' = granted /\ ReserveGoesOn(me, r) = [me EXCEPT !.pc = "idle", !.answer = "refused"]
      BY <2>4, <2>12 DEF ReserveGoesOn
    <3>2. Refuses(c, me, me.lim, lim, r.lim, late, p)
      BY <1>2, <2>2, <2>4, <2>8, <2>10, <2>12, <3>1, Zenon DEF Refuses
    <3> QED
      BY <2>6, <2>7, <2>10, <2>11, <3>2, RefusalKeeps, Zenon
  <2>13. CASE r.ok
    <3>1. granted' = Append(granted, Event(me.lim, r.act, me.n)) /\ ReserveGoesOn(me, r) = GrantGoesOn(me, r.act)
      <4>1. r.n = me.n
        BY <2>10, Zenon
      <4>2. ReserveGoesOn(me, r) = GrantGoesOn(me, r.act)
        BY <2>13, <4>1 DEF ReserveGoesOn, GrantGoesOn
      <4>3. granted' = Append(granted, Event(me.lim, r.act, me.n))
        BY <1>2, <2>4, <2>13, Zenon
      <4> QED
        BY <4>2, <4>3
    <3>2. lim.last \in Int /\ lim.last - late <= me.t
      <4>1. lim.last \in Int /\ me.t \in Nat
        BY <2>6, <2>7, BucketFields, Zenon
      <4>2. ASSUME NEW a \in Int, NEW t \in Nat PROVE a - Later(a - t, 0) <= t
        BY DEF Later
      <4> QED
        BY <2>9, <4>1, <4>2, Zenon
    <3>3. Grants(c, me, me.lim, lim, r.lim, late, p, r.act)
      BY <2>2, <2>4, <2>6, <2>8, <2>10, <2>13, <3>1, <3>2, Zenon DEF Grants
    <3> QED
      BY <2>6, <2>7, <2>10, <2>11, <3>3, GrantKeeps, Zenon
  <2> QED
    BY <2>10, <2>12, <2>13
<1> QED
  BY <1>1, <1>2

(* The hash, once written, is not the missing one.                         *)
LEMMA HashWritten ==
    ASSUME NEW hash \in Hash
    PROVE  hash # <<>> /\ hash.last \in Nat /\ hash.surplus \in Nat
<1>1. DOMAIN hash = {"last", "surplus"} /\ hash.last \in Nat /\ hash.surplus \in Nat
  BY DEF Hash
<1>2. DOMAIN <<>> = {}
  OBVIOUS
<1> QED
  BY <1>1, <1>2

(* What a caller of the script holds, and what there is.                   *)
LEMMA ScriptCall ==
    ASSUME LimiterInv, NEW c \in Callers, NEW me, me = caller[c], me.pc = "script"
    PROVE  /\ me \in Call /\ me.lim = 0 /\ me.n = 1 /\ me.max = 0 /\ me.t \in Nat /\ option = "redis"
           /\ Len(lims) = 0 /\ DOMAIN lims = {}
           /\ redis = <<>> \/ (redis \in Hash /\ redis.surplus < Burst)
           /\ \A d \in Callers : ~Waiting(caller[d])
<1>1. me \in Call /\ InOrder(me) /\ lims \in Seq(Bucket)
  BY DEF LimiterInv, LimiterTypeOK, CallsInOrder
<1>2. me.lim = 0 /\ me.n = 1 /\ me.max = 0 /\ option = "redis"
  BY <1>1 DEF InOrder
<1>3. Len(lims) = 0
  BY <1>2 DEF LimiterInv, LimitersMade
<1>4. DOMAIN lims = {}
  BY <1>1, <1>3
<1>5. redis = <<>> \/ (redis \in Hash /\ redis.surplus < Burst)
  BY DEF LimiterInv, LimiterTypeOK, LacksGranted
<1>6. \A d \in Callers : ~Waiting(caller[d])
  BY <1>2 DEF LimiterInv, CallsInOrder, HoldsEvent
<1>7. me.t \in Nat
  BY <1>1, CallFields
<1> QED
  BY <1>1, <1>2, <1>3, <1>4, <1>5, <1>6, <1>7

(* The call after the script has run.                                      *)
LEMMA ScriptAnswers ==
    ASSUME LimiterInv, NEW me \in Call, me.lim = 0, me.n = 1, me.max = 0, option = "redis",
           NEW answer \in Answers,
           NEW call, call = [me EXCEPT !.pc = "idle", !.answer = answer]
    PROVE  /\ call \in Call /\ InOrder(call) /\ ~Waiting(call) /\ call.answer = answer
           /\ call.lim = 0 /\ call.n = 1 /\ call.max = 0 /\ call.t = me.t
<1>1. "idle" \in Steps /\ 0 \in 0 .. Len(lims)
  BY DEF Steps, LimiterInv, LimiterTypeOK
<1>2. /\ call \in Call /\ call.pc = "idle" /\ call.answer = answer
      /\ call.lim = me.lim /\ call.n = me.n /\ call.max = me.max /\ call.t = me.t
  BY <1>1 DEF Call
<1>3. call.lim = 0 /\ call.n = 1 /\ call.max = 0 /\ call.pc = "idle"
  BY <1>2
<1>4. call.lim \in 0 .. Len(lims)
  BY <1>1, <1>3
<1>5. InOrder(call)
  BY <1>3, <1>4 DEF InOrder
<1>6. ~Waiting(call)
  BY <1>3 DEF Waiting
<1> QED
  BY <1>2, <1>3, <1>5, <1>6

(* The script refuses: the hash is empty, and what it lacks was granted.   *)
LEMMA ScriptRefuses ==
    ASSUME LimiterInv, NEW call \in Call, call.lim = 0, call.n = 1, call.max = 0, option = "redis",
           redis # <<>>, EmptiedHash(redis) = redis.last, call.t <= redis.last + TokenParts - 1
    PROVE  Justified(call)
<1>1. /\ granted \in Seq(Events) /\ redis \in Hash /\ call.t \in Nat /\ TokenParts \in Nat /\ TokenParts > 0
      /\ Full \in Nat
  BY CallFields, PartsOfTokens DEF LimiterInv, LimiterTypeOK
<1>2. redis.last \in Nat /\ Level(0) = redis.last
  BY <1>1, HashWritten DEF Level
<1>3. PICK s \in GrantTimes(0) : Level(0) + TokenParts - 1 <= s - Full + CostSince(0, s)
  BY DEF LimiterInv, LacksGranted
<1>4. s \in Int /\ CostSince(0, s) \in Int
  <2>1. s \in Int
    BY <1>1, NothingGranted
  <2> QED
    BY <1>1, <2>1, CostsNotNegative
<1>5. ASSUME NEW k \in Int, NEW t \in Nat, NEW last \in Nat, last + TokenParts - 1 <= s - Full + k,
             t <= last + TokenParts - 1
      PROVE  k + 1 * TokenParts > Full + 0 + (t - s)
  BY <1>1, <1>4, <1>5
<1>6. CostSince(0, s) + 1 * TokenParts > Full + 0 + (call.t - s)
  BY <1>1, <1>2, <1>3, <1>4, <1>5
<1>7. CostSince(call.lim, s) + call.n * TokenParts > Full + call.max + (call.t - s) /\ s \in GrantTimes(call.lim)
  BY <1>3, <1>6
<1>8. option # "infinite"
  OBVIOUS
<1> QED
  BY <1>7, <1>8 DEF Justified

(* The script grants: the hash is empty later by a token, and by less than *)
(* two.                                                                    *)
ScriptGrants(c, call, hash, e) ==
  /\ option = "redis" /\ Len(lims) = 0 /\ DOMAIN lims = {} /\ \A d \in Callers : ~Waiting(caller[d])
  /\ redis' = hash /\ granted' = Append(granted, e) /\ caller' = [caller EXCEPT ![c] = call]
  /\ UNCHANGED <<option, now, lims, cached, asks>>
  /\ e.lim = 0 /\ e.at = hash.last /\ e.parts = TokenParts
  /\ InOrder(call) /\ ~Waiting(call) /\ call.lim = 0 /\ call.answer # "refused"
  /\ hash.surplus < Burst /\ EmptiedHash(hash) \in Int /\ EmptiedHash(hash) <= hash.last
  /\ hash.last + TokenParts <= Full + EmptiedHash(hash)
  /\ redis # <<>> =>
       /\ redis.last <= hash.last /\ EmptiedHash(redis) + TokenParts <= EmptiedHash(hash)
  /\ \/ EmptiedHash(hash) = hash.last - Full + TokenParts
     \/ redis # <<>> /\ EmptiedHash(hash) <= EmptiedHash(redis) + 2 * TokenParts - 1

(* That keeps the invariant.                                               *)
LEMMA ScriptGrantKeeps ==
    ASSUME LimiterInv, NEW c \in Callers, NEW call \in Call, NEW hash \in Hash, NEW e \in Events,
           ScriptGrants(c, call, hash, e)
    PROVE  LimiterInv'
<1>1. /\ option = "redis" /\ Len(lims) = 0 /\ DOMAIN lims = {} /\ \A d \in Callers : ~Waiting(caller[d])
      /\ redis' = hash /\ granted' = Append(granted, e) /\ caller' = [caller EXCEPT ![c] = call]
      /\ UNCHANGED <<option, now, lims, cached, asks>>
  BY DEF ScriptGrants
<1>2. e.lim = 0 /\ e.at = hash.last /\ e.parts = TokenParts
  BY DEF ScriptGrants
<1>3. InOrder(call) /\ ~Waiting(call) /\ call.lim = 0 /\ call.answer # "refused"
  BY DEF ScriptGrants
<1>4. /\ hash.surplus < Burst /\ EmptiedHash(hash) \in Int /\ EmptiedHash(hash) <= hash.last
      /\ hash.last + TokenParts <= Full + EmptiedHash(hash)
      /\ redis # <<>> =>
           /\ redis.last <= hash.last /\ EmptiedHash(redis) + TokenParts <= EmptiedHash(hash)
  BY DEF ScriptGrants
<1>5. hash # <<>> /\ hash.last \in Nat
  BY HashWritten
<1>6. /\ LimiterTypeOK /\ granted \in Seq(Events) /\ caller \in [Callers -> Call]
      /\ (redis # <<>> => redis \in Hash /\ redis.last \in Nat) /\ Len(granted) \in Nat
      /\ DOMAIN granted = 1 .. Len(granted)
  BY HashWritten DEF LimiterInv, LimiterTypeOK
<1>7. TokenParts \in Nat /\ TokenParts > 0 /\ Full \in Nat
  BY PartsOfTokens
<1>8. /\ granted' \in Seq(Events) /\ DOMAIN granted' = 1 .. Len(granted) + 1
      /\ granted'[Len(granted) + 1] = e /\ \A i \in DOMAIN granted : granted'[i] = granted[i]
  BY <1>1, <1>6
<1>9. LimiterTypeOK'
  <2>1. caller' \in [Callers -> Call]
    BY <1>1, <1>6
  <2> QED
    BY <1>1, <1>6, <1>8, <2>1 DEF LimiterTypeOK
<1>10. LimitersMade'
  BY <1>1 DEF LimiterInv, LimitersMade
<1>11. ASSUME NEW i \in DOMAIN granted, granted[i].lim = 0
       PROVE  redis # <<>> /\ granted[i].at <= hash.last /\ granted[i].at \in Int
  <2>1. redis # <<>> /\ granted[i].at <= redis.last
    BY <1>11 DEF LimiterInv, EventsInOrder
  <2>2. granted[i].at \in Int
    <3>1. granted[i] \in Events
      BY <1>6
    <3> QED
      BY <3>1 DEF Events
  <2> QED
    BY <1>4, <1>5, <1>6, <2>1, <2>2
<1>12. EventsInOrder'
  <2>1. ASSUME NEW i \in DOMAIN granted'
        PROVE  granted'[i].lim \in 0 .. Len(lims) /\ (granted'[i].lim = 0 => granted'[i].at <= hash.last)
    <3>1. CASE i \in DOMAIN granted
      BY <1>8, <1>11, <3>1 DEF LimiterInv, EventsInOrder
    <3>2. CASE i = Len(granted) + 1
      BY <1>1, <1>2, <1>5, <1>8, <3>2
    <3> QED
      BY <1>6, <1>8, <3>1, <3>2
  <2> QED
    BY <1>1, <1>5, <2>1 DEF EventsInOrder
<1>13. CallsInOrder'
  <2>1. Len(lims') = Len(lims) /\ DOMAIN lims' = DOMAIN lims /\ UNCHANGED option
    BY <1>1
  <2> QED
    BY <1>1, <1>3, <2>1, OthersWait
<1>14. /\ 0 \in 0 .. Len(lims) /\ Late(0) = 0 /\ Late(0)' = 0
       /\ Level(0)' = EmptiedHash(hash) /\ Level(0) = EmptiedHash(redis)
  BY <1>1 DEF Late, Level, EmptiedHash
<1>15. redis # <<>> => EmptiedHash(redis) \in Int
  BY <1>6, <1>14, LevelsTyped
<1>16. GrantTimes(0) # {} => redis # <<>>
  BY <1>11 DEF GrantTimes
<1>17. PaidFor(0, e)
  <2>1. \A k \in 0 .. Len(lims) : k = 0
    BY <1>1
  <2>2. GrantTimes(0) # {} => Level(0) + e.parts <= Level(0)'
    BY <1>2, <1>4, <1>14, <1>16
  <2>3. Level(0)' \in Int /\ Late(0)' \in Int /\ Late(0) <= Late(0)'
    BY <1>4, <1>14
  <2>4. e.at + e.parts <= Full + Level(0)' /\ Level(0)' <= e.at + Late(0)'
    BY <1>2, <1>4, <1>5, <1>14
  <2>5. e.parts > 0 /\ Len(lims') = Len(lims)
    BY <1>1, <1>2, <1>7
  <2> QED
    BY <1>1, <1>2, <2>1, <2>2, <2>3, <2>4, <2>5 DEF PaidFor
<1>18. LevelPays' /\ StretchPays'
  BY <1>14, <1>17, GrantPays
<1>19. LacksGranted'
  <2>1. /\ GrantTimes(0)' = GrantTimes(0) \cup {e.at} /\ GrantTimes(0) \subseteq Int
    <3>1. GrantTimes(0)' = GrantTimes(0) \cup (IF e.lim = 0 THEN {e.at} ELSE {})
      BY <1>1, <1>2, <1>6, <1>7, TimeAdded
    <3>2. GrantTimes(0) \subseteq Int
      BY <1>6, NothingGranted
    <3> QED
      BY <1>2, <3>1, <3>2
  <2>2. ASSUME NEW s \in Int, s <= hash.last
        PROVE  /\ CostSince(0, s) \in Int /\ CostSince(0, s) >= 0
               /\ CostSince(0, s)' = CostSince(0, s) + (2 * TokenParts - 1)
    <3>1. CostSince(0, s) \in Int /\ CostSince(0, s) >= 0
      BY <1>6, CostsNotNegative
    <3>2. 0 \in Nat /\ 0 = 0 /\ e.lim = 0 /\ s <= e.at
      BY <1>2, <2>2
    <3>3. CostSince(0, s)' = CostSince(0, s) + (2 * TokenParts - 1)
      BY <1>1, <1>6, <3>2, EventAdded, ZenonT(120)
    <3> QED
      BY <3>1, <3>3
  <2>3. \E s \in GrantTimes(0)' : EmptiedHash(hash) + TokenParts - 1 <= s - Full + CostSince(0, s)'
    <3>1. CASE EmptiedHash(hash) = hash.last - Full + TokenParts
      <4>1. /\ CostSince(0, hash.last) \in Int /\ CostSince(0, hash.last) >= 0
            /\ CostSince(0, hash.last)' = CostSince(0, hash.last) + (2 * TokenParts - 1)
        BY <1>5, <2>2
      <4>2. EmptiedHash(hash) + TokenParts - 1 <= hash.last - Full + CostSince(0, hash.last)'
        BY <1>4, <1>5, <1>7, <3>1, <4>1, SMTT(90)
      <4>3. hash.last \in GrantTimes(0)'
        BY <1>2, <2>1
      <4> QED
        BY <4>2, <4>3
    <3>2. CASE redis # <<>> /\ EmptiedHash(hash) <= EmptiedHash(redis) + 2 * TokenParts - 1
      <4>1. PICK s \in GrantTimes(0) : EmptiedHash(redis) + TokenParts - 1 <= s - Full + CostSince(0, s)
        BY <1>14, <3>2 DEF LimiterInv, LacksGranted
      <4>2. s \in Int /\ s <= hash.last /\ s \in GrantTimes(0)'
        BY <1>11, <2>1 DEF GrantTimes
      <4>3. /\ CostSince(0, s) \in Int
            /\ CostSince(0, s)' = CostSince(0, s) + (2 * TokenParts - 1)
        BY <2>2, <4>2
      <4>4. EmptiedHash(hash) + TokenParts - 1 <= s - Full + CostSince(0, s)'
        BY <1>4, <1>7, <1>15, <3>2, <4>1, <4>2, <4>3, SMTT(90)
      <4> QED
        BY <4>2, <4>4
    <3> QED
      BY <3>1, <3>2 DEF ScriptGrants
  <2>4. hash.surplus < Burst
    BY <1>4
  <2> QED
    BY <1>1, <1>14, <2>3, <2>4 DEF LacksGranted
<1>20. NoNeedlessRefusal'
  <2>1. \E f \in Events : f.parts > 0 /\ granted' = Append(granted, f)
    BY <1>1, <1>2, <1>7
  <2>2. \A k \in 1 .. Len(lims) : lims'[k].cancels = lims[k].cancels
    BY <1>1
  <2> QED
    BY <1>1, <1>3, <1>14, <2>1, <2>2, RefusalsStay
<1> QED
  BY <1>9, <1>10, <1>12, <1>13, <1>18, <1>19, <1>20 DEF LimiterInv

(* The script keeps the invariant, also when its answer is lost.           *)
LEMMA ScriptKeeps ==
    ASSUME LimiterInv, NEW c \in Callers, RunScript(c)
    PROVE  LimiterInv'
<1>1. PICK me : me = caller[c]
  OBVIOUS
<1>2. PICK answered : answered = limiterScript(redis, me.t)
  OBVIOUS
<1>3. PICK lost \in BOOLEAN :
        /\ caller[c].pc = "script" /\ redis' = answered.hash
        /\ granted' = IF answered.status = 1 THEN Append(granted, Event(0, answered.hash.last, 1)) ELSE granted
        /\ caller' = [caller EXCEPT ![c].pc = "idle",
                        ![c].answer = IF lost THEN "failed"
                                      ELSE IF answered.status = 1 THEN "granted" ELSE "refused"]
        /\ UNCHANGED <<option, now, lims, cached, asks>>
  BY <1>1, <1>2 DEF RunScript
<1>4. me.pc = "script"
  BY <1>1, <1>3
<1>5. /\ me \in Call /\ me.lim = 0 /\ me.n = 1 /\ me.max = 0 /\ me.t \in Nat /\ option = "redis"
      /\ Len(lims) = 0 /\ DOMAIN lims = {}
      /\ redis = <<>> \/ (redis \in Hash /\ redis.surplus < Burst)
      /\ \A d \in Callers : ~Waiting(caller[d])
  BY <1>1, <1>4, ScriptCall
<1> DEFINE answer == IF lost THEN "failed" ELSE IF answered.status = 1 THEN "granted" ELSE "refused"
           call == [me EXCEPT !.pc = "idle", !.answer = answer]
<1>6. answer \in Answers /\ (answered.status = 1 => answer # "refused")
  BY DEF Answers
<1>7. caller' = [caller EXCEPT ![c] = call]
  <2>1. caller \in [Callers -> Call]
    BY DEF LimiterInv, LimiterTypeOK
  <2> HIDE DEF answer
  <2>2. caller' = [caller EXCEPT ![c].pc = "idle", ![c].answer = answer]
    BY <1>3 DEF answer
  <2> QED
    BY <1>1, <2>1, <2>2 DEF Call
<1> HIDE DEF answer
<1>8. /\ call \in Call /\ InOrder(call) /\ ~Waiting(call) /\ call.answer = answer
      /\ call.lim = 0 /\ call.n = 1 /\ call.max = 0 /\ call.t = me.t
  BY <1>5, <1>6, ScriptAnswers, ZenonT(120)
<1> HIDE DEF call
<1>9. /\ answered.status \in {0, 1}
      /\ answered.status = 1 =>
           /\ answered.hash \in Hash /\ answered.hash.surplus < Burst /\ EmptiedHash(answered.hash) \in Int
           /\ EmptiedHash(answered.hash) <= answered.hash.last
           /\ answered.hash.last + TokenParts <= Full + EmptiedHash(answered.hash)
           /\ redis # <<>> =>
                /\ redis.last <= answered.hash.last /\ EmptiedHash(redis) \in Int
                /\ EmptiedHash(redis) + TokenParts <= EmptiedHash(answered.hash)
           /\ \/ EmptiedHash(answered.hash) = answered.hash.last - Full + TokenParts
              \/ redis # <<>> /\ EmptiedHash(answered.hash) <= EmptiedHash(redis) + 2 * TokenParts - 1
      /\ answered.status = 0 =>
           /\ answered.hash = redis /\ redis # <<>> /\ EmptiedHash(redis) = redis.last
           /\ me.t <= redis.last + TokenParts - 1
  BY <1>2, <1>5, ScriptTakes, ZenonT(120)
<1>10. CASE answered.status = 1
  <2>1. PICK hash : hash = answered.hash
    OBVIOUS
  <2>2. PICK e : e = Event(0, hash.last, 1)
    OBVIOUS
  <2>3. hash \in Hash /\ hash.last \in Nat
    BY <1>9, <1>10, <2>1, HashWritten
  <2>4. e \in Events /\ e.lim = 0 /\ e.at = hash.last /\ e.parts = TokenParts
    <3>1. TokenParts \in Nat /\ 1 * TokenParts = TokenParts
      BY PartsOfTokens
    <3> QED
      BY <2>2, <2>3, <3>1 DEF Event, Events
  <2>5. granted' = Append(granted, e) /\ redis' = hash
    BY <1>3, <1>10, <2>1, <2>2
  <2>6. call.answer # "refused"
    BY <1>6, <1>8, <1>10
  <2>7. UNCHANGED <<option, now, lims, cached, asks>>
    BY <1>3
  <2>8. ScriptGrants(c, call, hash, e)
    BY <1>5, <1>7, <1>8, <1>9, <1>10, <2>1, <2>4, <2>5, <2>6, <2>7, Zenon DEF ScriptGrants
  <2> QED
    BY <1>8, <2>3, <2>4, <2>8, ScriptGrantKeeps
<1>11. CASE answered.status = 0
  <2>1. redis' = redis /\ granted' = granted
    BY <1>3, <1>9, <1>11
  <2>2. redis # <<>> /\ EmptiedHash(redis) = redis.last /\ me.t <= redis.last + TokenParts - 1
    BY <1>9, <1>11, Zenon
  <2>3. call.t <= redis.last + TokenParts - 1
    BY <1>8, <2>2
  <2>4. Justified(call)
    BY <1>5, <1>8, <2>2, <2>3, ScriptRefuses
  <2>5. UNCHANGED <<option, lims, cached, redis, granted>> /\ now' \in Nat /\ asks' \in Nat
    BY <1>3, <2>1 DEF LimiterInv, LimiterTypeOK
  <2> QED
    BY <1>7, <1>8, <2>4, <2>5, CallMovesOn
<1> QED
  BY <1>9, <1>10, <1>11

(* What a caller of Cancel holds: its event, which is a grant time.        *)
LEMMA CancelCall ==
    ASSUME LimiterInv, NEW c \in Callers, NEW me, me = caller[c], me.pc = "cancel"
    PROVE  /\ me \in Call /\ me.lim = 1 /\ me.t \in Nat /\ me.r \in Reservation /\ me.r.n \in 1 .. Burst
           /\ option = "limiter" /\ Len(lims) = 1 /\ DOMAIN lims = {1} /\ lims[1] \in Bucket
           /\ lims[1].tokens <= Full /\ me.r.event \in DOMAIN granted
           /\ granted[me.r.event].lim = 1 /\ granted[me.r.event].at = me.r.act
           /\ granted[me.r.event].parts = me.r.n * TokenParts /\ me.r.n * TokenParts > 0
           /\ me.r.n * TokenParts \in Nat /\ me.r.act \in Int /\ me.r.act \in GrantTimes(1)
<1>1. me \in Call /\ Waiting(me) /\ lims \in Seq(Bucket)
  BY DEF LimiterInv, LimiterTypeOK, Waiting
<1>2. HoldsEvent(me)
  BY <1>1 DEF LimiterInv, CallsInOrder
<1>3. /\ option = "limiter" /\ me.lim = 1 /\ me.r.n \in 1 .. Burst
      /\ me.r.event \in DOMAIN granted
      /\ granted[me.r.event] = Event(1, me.r.act, me.r.n)
  BY <1>2 DEF HoldsEvent
<1>4. me.t \in Nat /\ me.r \in Reservation /\ me.r.n \in Nat /\ me.r.act \in Int
  BY <1>1, CallFields
<1>5. Len(lims) = 1
  BY <1>3 DEF LimiterInv, LimitersMade
<1>6. DOMAIN lims = 1 .. Len(lims) /\ \A i \in DOMAIN lims : lims[i] \in Bucket
  BY <1>1
<1>7. DOMAIN lims = {1}
  BY <1>5, <1>6
<1>8. lims[1].tokens <= Full /\ lims[1] \in Bucket
  <2>1. \A i \in DOMAIN lims : lims[i].tokens <= Full
    BY DEF LimiterInv, LimitersMade
  <2> QED
    BY <1>6, <1>7, <2>1
<1>9. me.r.n * TokenParts > 0 /\ me.r.n * TokenParts \in Nat
  <2>1. me.r.n > 0
    BY <1>3, PartsOfTokens
  <2> QED
    BY <1>4, <2>1, PartsOfTokens
<1>10. /\ granted[me.r.event].lim = 1 /\ granted[me.r.event].at = me.r.act
       /\ granted[me.r.event].parts = me.r.n * TokenParts
  BY <1>3 DEF Event
<1>11. me.r.act \in GrantTimes(1)
  <2>1. granted[me.r.event].parts > 0
    BY <1>9, <1>10
  <2> QED
    BY <1>3, <1>10, <2>1 DEF GrantTimes
<1> QED
  BY <1>1, <1>3, <1>4, <1>5, <1>7, <1>8, <1>9, <1>10, <1>11, Zenon

(* A cancelled event of a Limiter is none of Redis's.                      *)
LEMMA RedisUncancelled ==
    ASSUME granted \in Seq(Events), NEW m \in DOMAIN granted, granted[m].lim = 1,
           granted' = [granted EXCEPT ![m].parts = 0]
    PROVE  GrantTimes(0)' = GrantTimes(0) /\ \A s : CostSince(0, s)' = CostSince(0, s)
<1>1. /\ DOMAIN granted' = DOMAIN granted /\ Len(granted') = Len(granted)
      /\ DOMAIN granted = 1 .. Len(granted) /\ Len(granted) \in Nat
      /\ \A i \in DOMAIN granted \ {m} : granted'[i] = granted[i]
  OBVIOUS
<1>2. granted[m] \in Events
  OBVIOUS
<1>3. \A i \in DOMAIN granted : granted'[i].lim = granted[i].lim /\ granted'[i].at = granted[i].at
  <2>1. granted'[m] = [granted[m] EXCEPT !.parts = 0]
    OBVIOUS
  <2>2. granted'[m].lim = granted[m].lim /\ granted'[m].at = granted[m].at
    BY <1>2, <2>1 DEF Events
  <2> QED
    BY <1>1, <2>2
<1>4. \A i \in DOMAIN granted : granted[i].lim = 0 => granted'[i] = granted[i]
  BY <1>1
<1>5. GrantTimes(0)' = GrantTimes(0)
  BY <1>1, <1>3, <1>4 DEF GrantTimes
<1>6. ASSUME NEW s PROVE Costs(0, s)' = Costs(0, s)
  <2>1. Costs(0, s) = [i \in 1 .. Len(granted) |-> IF granted[i].lim # 0 \/ granted[i].at < s THEN 0
                                                   ELSE 2 * TokenParts - 1]
    BY DEF Costs
  <2>2. Costs(0, s)' = [i \in 1 .. Len(granted) |-> IF granted'[i].lim # 0 \/ granted'[i].at < s THEN 0
                                                    ELSE 2 * TokenParts - 1]
    BY <1>1 DEF Costs
  <2> QED
    BY <1>1, <1>3, <2>1, <2>2
<1> QED
  BY <1>5, <1>6 DEF CostSince

(* A cancelled wait: its event is taken back, and the bucket given no more *)
(* than that, less what was granted after it.                              *)
Cancels(c, call, lim, new, m, act, p, latest) ==
  /\ option = "limiter" /\ Len(lims) = 1 /\ DOMAIN lims = {1} /\ lim = lims[1]
  /\ lims' = [lims EXCEPT ![1] = new] /\ granted' = [granted EXCEPT ![m].parts = 0]
  /\ caller' = [caller EXCEPT ![c] = call] /\ UNCHANGED <<option, now, cached, redis, asks>>
  /\ granted[m].lim = 1 /\ granted[m].at = act /\ granted[m].parts = p /\ p > 0
  /\ act <= latest /\ \A b \in GrantTimes(1) : b <= latest
  /\ act \in GrantTimes(1)
  /\ InOrder(call) /\ ~Waiting(call) /\ call.answer # "refused"
  /\ Waiting(caller[c]) /\ caller[c].r.event = m
  /\ new.tokens <= Full /\ new.made = lim.made /\ new.cancels > 0
  /\ lim.back <= new.back /\ lim.excess <= new.excess
  /\ \/ Emptied(new) + new.back + new.excess = Emptied(lim) + lim.back + lim.excess
     \/ Emptied(lim) + lim.back + lim.excess - p + (latest - act) <= Emptied(new) + new.back + new.excess

(* That keeps every stretch paid for.                                      *)
LEMMA CancelPays ==
    ASSUME LimiterInv, NEW c \in Callers, NEW call \in Call, NEW lim \in Bucket, NEW new \in Bucket,
           NEW m \in DOMAIN granted, NEW act \in Int, NEW p \in Nat, NEW latest \in Int,
           Cancels(c, call, lim, new, m, act, p, latest)
    PROVE  LevelPays' /\ StretchPays'
<1>1. /\ Len(lims) = 1 /\ DOMAIN lims = {1} /\ lim = lims[1] /\ lims' = [lims EXCEPT ![1] = new]
      /\ granted' = [granted EXCEPT ![m].parts = 0] /\ redis' = redis
  BY DEF Cancels
<1>2. /\ granted[m].lim = 1 /\ granted[m].at = act /\ granted[m].parts = p /\ p > 0
      /\ act <= latest /\ (\A b \in GrantTimes(1) : b <= latest) /\ act \in GrantTimes(1)
  BY DEF Cancels
<1>3. /\ lim.back <= new.back /\ lim.excess <= new.excess
      /\ \/ Emptied(new) + new.back + new.excess = Emptied(lim) + lim.back + lim.excess
         \/ Emptied(lim) + lim.back + lim.excess - p + (latest - act) <= Emptied(new) + new.back + new.excess
  BY DEF Cancels
<1>4. /\ lim.back \in Nat /\ lim.excess \in Nat /\ Emptied(lim) \in Int
      /\ new.back \in Nat /\ new.excess \in Nat /\ Emptied(new) \in Int
  BY BucketFields
<1>5. LimiterTypeOK /\ granted \in Seq(Events) /\ lims \in Seq(Bucket) /\ Full \in Nat
  BY PartsOfTokens DEF LimiterInv, LimiterTypeOK
<1>6. lims'[1] = new /\ Len(lims') = 1
  BY <1>1, <1>5
<1>7. \A k \in 0 .. Len(lims) : k = 0 \/ k = 1
  BY <1>1
<1>8. /\ Level(1)' = Emptied(new) + (new.back + new.excess) /\ Late(1)' = new.back + new.excess
      /\ Level(1) = Emptied(lim) + (lim.back + lim.excess) /\ Late(1) = lim.back + lim.excess
      /\ Level(0)' = Level(0) /\ Late(0)' = 0 /\ Late(0) = 0
  BY <1>1, <1>6 DEF Level, Late, Emptied, EmptiedHash
<1>9. /\ Level(1) \in Int /\ Level(1)' \in Int
      /\ Late(1) \in Nat /\ Late(1)' \in Nat /\ Late(1) <= Late(1)'
      /\ Level(1)' = Level(1) \/ Level(1) - p + (latest - act) <= Level(1)'
  <2> DEFINE a == Emptied(lim)
             h == lim.back
             x == lim.excess
             b == Emptied(new)
             i == new.back
             y == new.excess
  <2>2. /\ a \in Int /\ h \in Nat /\ x \in Nat /\ b \in Int /\ i \in Nat /\ y \in Nat /\ h <= i /\ x <= y
        /\ b + i + y = a + h + x \/ a + h + x - p + (latest - act) <= b + i + y
    BY <1>3, <1>4
  <2>3. Level(1)' = b + (i + y) /\ Late(1)' = i + y /\ Level(1) = a + (h + x) /\ Late(1) = h + x
    BY <1>8
  <2> HIDE DEF a, h, x, b, i, y
  <2>4. /\ a + (h + x) \in Int /\ b + (i + y) \in Int /\ h + x \in Nat /\ i + y \in Nat
        /\ h + x <= i + y
        /\ b + (i + y) = a + (h + x) \/ a + (h + x) - p + (latest - act) <= b + (i + y)
    BY <2>2
  <2> DEFINE u == Level(1)
             v == Level(1)'
             w == Late(1)
             z == Late(1)'
  <2>5. v = b + (i + y) /\ z = i + y /\ u = a + (h + x) /\ w = h + x
    BY <2>3
  <2> HIDE DEF u, v, w, z
  <2>6. /\ u \in Int /\ v \in Int /\ w \in Nat /\ z \in Nat /\ w <= z
        /\ v = u \/ u - p + (latest - act) <= v
    BY <2>2, <2>4, <2>5
  <2> QED
    BY <2>6 DEF u, v, w, z
<1>10. ASSUME NEW k \in Nat, NEW s \in Int, NEW t \in Int
       PROVE  /\ GrantTimes(k)' \subseteq GrantTimes(k) /\ Granted(k, s, t) \in Int
              /\ Granted(k, s, t)' \in Int /\ Granted(k, s, t)' <= Granted(k, s, t)
              /\ k = 1 =>
                   \A u, v \in Int : u <= s /\ u <= act /\ t <= v /\ act <= v =>
                     Granted(k, s, t)' + p <= Granted(k, u, v)
  <2>1. Granted(k, s, t) \in Int
    BY <1>5, WeightsTyped
  <2>2. /\ GrantTimes(k)' \subseteq GrantTimes(k)
        /\ Granted(k, s, t)' \in Int /\ Granted(k, s, t)' <= Granted(k, s, t)
        /\ k = granted[m].lim =>
             \A u, v \in Int : u <= s /\ u <= granted[m].at /\ t <= v /\ granted[m].at <= v =>
               Granted(k, s, t)' + granted[m].parts <= Granted(k, u, v)
    <3>1. granted[m].parts > 0
      BY <1>2
    <3> QED
      BY <1>1, <1>5, <3>1, EventCancelled, Zenon
  <2> QED
    BY <1>2, <2>1, <2>2, Zenon
<1>11. ASSUME NEW k \in 0 .. Len(lims), NEW s \in Int, NEW t \in Int
       PROVE  /\ k \in Nat
              /\ (\E a \in GrantTimes(k) : s <= a) => Granted(k, s, t) <= Full + Level(k) - s
              /\ s <= t => Granted(k, s, t) <= Full + (t - s) + Late(k)
  <2>1. k \in Nat
    BY <1>7
  <2>2. LevelPays /\ StretchPays
    BY DEF LimiterInv
  <2>3. (\E a \in GrantTimes(k) : s <= a) => Granted(k, s, t) <= Full + Level(k) - s
    BY <2>2, Zenon DEF LevelPays
  <2>4. s <= t => Granted(k, s, t) <= Full + (t - s) + Late(k)
    BY <2>2, Zenon DEF StretchPays
  <2> QED
    BY <2>1, <2>3, <2>4
<1>12. ASSUME NEW s \in Int, NEW t \in Int, NEW a \in GrantTimes(1)', s <= a
       PROVE  Granted(1, s, t)' <= Full + Level(1)' - s
  <2>1. a \in GrantTimes(1) /\ a \in Int /\ a <= latest
    <3>1. a \in GrantTimes(1)
      BY <1>10
    <3>2. GrantTimes(1) \subseteq Int
      BY <1>5, NothingGranted
    <3> QED
      BY <1>2, <3>1, <3>2
  <2>2. 1 \in 0 .. Len(lims) /\ Granted(1, s, t)' \in Int /\ Granted(1, s, t)' <= Granted(1, s, t)
        /\ Granted(1, s, t) \in Int
    BY <1>1, <1>10
  <2>3. CASE Level(1)' = Level(1)
    <3>1. Granted(1, s, t) <= Full + Level(1) - s
      BY <1>11, <1>12, <2>1, <2>2
    <3> QED
      BY <1>5, <1>9, <2>2, <2>3, <3>1, SMTT(90)
  <2>4. CASE Level(1) - p + (latest - act) <= Level(1)'
    <3> DEFINE v == IF t > act THEN t ELSE act
               u == IF s <= act THEN s ELSE act
    <3>1. u \in Int /\ v \in Int /\ u <= s /\ u <= act /\ t <= v /\ act <= v /\ (u = s \/ (u = act /\ act < s))
      OBVIOUS
    <3> HIDE DEF u, v
    <3>2. Granted(1, s, t)' + p <= Granted(1, u, v) /\ Granted(1, u, v) \in Int
      BY <1>10, <3>1
    <3>3. Granted(1, u, v) <= Full + Level(1) - u
      BY <1>2, <1>11, <2>2, <3>1
    <3>4. Granted(1, s, t)' + p <= Full + Level(1) - u
      <4>1. ASSUME NEW f \in Int, NEW g \in Int, NEW y \in Int, g + p <= f, f <= Full + y - u
            PROVE  g + p <= Full + y - u
        BY <1>5, <3>1, <4>1
      <4>2. Level(1) \in Int /\ Granted(1, s, t)' \in Int
        BY <1>9, <2>2
      <4> QED
        BY <3>2, <3>3, <4>1, <4>2, Zenon
    <3>5. ASSUME NEW g \in Int, NEW y \in Int, NEW z \in Int,
                 g + p <= Full + y - u, y - p + (latest - act) <= z
          PROVE  g <= Full + z - s
      <4>1. CASE u = s
        BY <1>2, <1>5, <3>5, <4>1
      <4>2. CASE u = act
        BY <1>2, <1>5, <1>12, <2>1, <3>5, <4>2
      <4> QED
        BY <3>1, <4>1, <4>2
    <3> QED
      BY <1>9, <2>2, <2>4, <3>4, <3>5
  <2> QED
    BY <1>9, <2>3, <2>4
<1>13. LevelPays'
  <2>1. ASSUME NEW k \in 0 .. Len(lims), NEW s \in Int, NEW t \in Int, \E a \in GrantTimes(k)' : s <= a
        PROVE  Granted(k, s, t)' <= Full + Level(k)' - s
    <3>1. CASE k = 1
      BY <1>12, <2>1, <3>1
    <3>2. CASE k = 0
      <4>1. PICK a \in GrantTimes(0) : s <= a
        BY <1>10, <2>1, <3>2
      <4>2. redis # <<>>
        BY <4>1 DEF GrantTimes, LimiterInv, EventsInOrder
      <4>3. Level(0) \in Int
        BY <1>5, <3>2, <4>2, LevelsTyped
      <4>4. Granted(0, s, t) <= Full + Level(0) - s
        BY <1>11, <3>2, <4>1
      <4>5. Granted(0, s, t)' \in Int /\ Granted(0, s, t)' <= Granted(0, s, t) /\ Granted(0, s, t) \in Int
        BY <1>10
      <4>6. Granted(0, s, t)' <= Full + Level(0) - s
        BY <1>5, <4>3, <4>4, <4>5
      <4> QED
        BY <1>8, <3>2, <4>6
    <3> QED
      BY <1>7, <3>1, <3>2
  <2> QED
    BY <1>1, <1>6, <2>1 DEF LevelPays
<1>14. StretchPays'
  <2>1. ASSUME NEW k \in 0 .. Len(lims), NEW s \in Int, NEW t \in Int, s <= t
        PROVE  Granted(k, s, t)' <= Full + (t - s) + Late(k)'
    <3>1. /\ Granted(k, s, t)' \in Int /\ Granted(k, s, t)' <= Granted(k, s, t) /\ Granted(k, s, t) \in Int
          /\ Granted(k, s, t) <= Full + (t - s) + Late(k)
      BY <1>10, <1>11, <2>1
    <3>2. Late(k) \in Nat /\ Late(k)' \in Nat /\ Late(k) <= Late(k)'
      <4>1. CASE k = 1
        BY <1>9, <4>1
      <4>2. CASE k = 0
        BY <1>8, <4>2
      <4> QED
        BY <1>7, <4>1, <4>2
    <3> QED
      BY <1>5, <3>1, <3>2
  <2> QED
    BY <1>1, <1>6, <2>1 DEF StretchPays
<1> QED
  BY <1>13, <1>14

(* And the invariant.                                                      *)
LEMMA CancelledKeeps ==
    ASSUME LimiterInv, NEW c \in Callers, NEW call \in Call, NEW lim \in Bucket, NEW new \in Bucket,
           NEW m \in DOMAIN granted, NEW act \in Int, NEW p \in Nat, NEW latest \in Int,
           Cancels(c, call, lim, new, m, act, p, latest)
    PROVE  LimiterInv'
<1>1. /\ Len(lims) = 1 /\ DOMAIN lims = {1} /\ lim = lims[1] /\ lims' = [lims EXCEPT ![1] = new]
      /\ granted' = [granted EXCEPT ![m].parts = 0] /\ option = "limiter"
      /\ caller' = [caller EXCEPT ![c] = call] /\ UNCHANGED <<option, now, cached, redis, asks>>
  BY DEF Cancels
<1>2. granted[m].lim = 1 /\ granted[m].parts > 0
  BY DEF Cancels
<1>3. InOrder(call) /\ ~Waiting(call) /\ call.answer # "refused"
  BY DEF Cancels
<1>4. new.tokens <= Full /\ new.made = lim.made /\ new.cancels > 0
  BY DEF Cancels
<1>5. LevelPays' /\ StretchPays'
  BY CancelPays
<1>6. LimiterTypeOK /\ granted \in Seq(Events) /\ caller \in [Callers -> Call]
  BY DEF LimiterInv, LimiterTypeOK
<1>7. 1 \in 1 .. Len(lims)
  BY <1>1
<1>8. LimitersMade' /\ lims' \in Seq(Bucket) /\ Len(lims') = Len(lims) /\ DOMAIN lims' = DOMAIN lims
      /\ lims'[1] = new
  BY <1>1, <1>4, <1>7, BucketWritten
<1>9. /\ granted' \in Seq(Events) /\ DOMAIN granted' = DOMAIN granted
      /\ \A i \in DOMAIN granted : granted'[i].lim = granted[i].lim /\ granted'[i].at = granted[i].at
      /\ \A i \in DOMAIN granted \ {m} : granted'[i] = granted[i]
  <2>1. 0 \in Nat /\ 0 \in Int
    OBVIOUS
  <2> QED
    BY <1>1, <1>2, <1>6, <2>1, EventCancelled
<1>10. LimiterTypeOK'
  <2>1. caller' \in [Callers -> Call]
    BY <1>1, <1>6
  <2> QED
    BY <1>1, <1>6, <1>8, <1>9, <2>1 DEF LimiterTypeOK
<1>11. EventsInOrder'
  BY <1>1, <1>8, <1>9 DEF LimiterInv, EventsInOrder
<1>12. CallsInOrder'
  <2>1. ASSUME NEW d \in Callers \ {c}, Waiting(caller[d])
        PROVE  /\ caller[d].r.event \in DOMAIN granted'
               /\ granted'[caller[d].r.event] = granted[caller[d].r.event]
    <3>1. Waiting(caller[c]) /\ caller[c].r.event = m
      BY DEF Cancels
    <3>2. caller[d].r.event \in DOMAIN granted /\ caller[d].r.event # m
      BY <2>1, <3>1 DEF LimiterInv, CallsInOrder, HoldsEvent
    <3> QED
      BY <1>9, <3>2
  <2>2. UNCHANGED option
    BY <1>1
  <2> QED
    BY <1>1, <1>3, <1>8, <2>1, <2>2, OthersWait
<1>13. LacksGranted'
  <2>1. GrantTimes(0)' = GrantTimes(0) /\ \A s : CostSince(0, s)' = CostSince(0, s)
    BY <1>1, <1>2, <1>6, RedisUncancelled
  <2>2. redis' = redis /\ Level(0)' = Level(0)
    BY <1>1 DEF Level, EmptiedHash
  <2>3. \A k \in DOMAIN lims' : lims'[k].cancels > 0
    BY <1>1, <1>4, <1>8
  <2>4. (redis # <<>> =>
           /\ redis.surplus < Burst
           /\ \E s \in GrantTimes(0) : Level(0) + TokenParts - 1 <= s - Full + CostSince(0, s))'
    BY <2>1, <2>2 DEF LimiterInv, LacksGranted
  <2> QED
    BY <2>3, <2>4 DEF LacksGranted
<1>14. NoNeedlessRefusal'
  <2>1. ASSUME NEW d \in Callers, caller'[d].answer = "refused" PROVE Justified(caller[d])'
    <3>1. d # c /\ caller'[d] = caller[d]
      BY <1>1, <1>3, <1>6, <2>1
    <3>2. InOrder(caller[d]) /\ caller[d].answer = "refused"
      BY <2>1, <3>1 DEF LimiterInv, CallsInOrder
    <3>3. option' # "infinite" /\ option # "redis"
      BY <1>1
    <3>4. caller[d].lim = 0 \/ caller[d].lim = 1
      <4>1. caller[d].lim \in 0 .. Len(lims)
        BY <3>2 DEF InOrder
      <4> QED
        BY <1>1, <4>1
    <3>5. CASE caller[d].lim = 0
      <4>1. caller[d].n > Burst
        BY <3>2, <3>3, <3>5 DEF InOrder
      <4> QED
        BY <3>1, <3>3, <4>1 DEF Justified
    <3>6. CASE caller[d].lim = 1
      BY <1>4, <1>8, <3>1, <3>3, <3>6 DEF Justified
    <3> QED
      BY <3>4, <3>5, <3>6
  <2> QED
    BY <2>1 DEF NoNeedlessRefusal
<1> QED
  BY <1>5, <1>8, <1>10, <1>11, <1>12, <1>13, <1>14 DEF LimiterInv

(* What the cancelled bucket is, the step counted.                         *)
LEMMA CancelCounted ==
    ASSUME NEW x \in Bucket, NEW new, new = [x EXCEPT !.cancels = @ + 1]
    PROVE  /\ new \in Bucket /\ new.tokens = x.tokens /\ new.last = x.last /\ new.made = x.made
           /\ new.back = x.back /\ new.excess = x.excess /\ new.cancels > 0 /\ Emptied(new) = Emptied(x)
<1> DEFINE n == x.cancels + 1
<1>1. n \in Nat /\ n > 0
  BY BucketFields
<1>2. new = [x EXCEPT !.cancels = n]
  OBVIOUS
<1> HIDE DEF n
<1>3. /\ new \in Bucket /\ new.tokens = x.tokens /\ new.last = x.last /\ new.made = x.made
      /\ new.back = x.back /\ new.excess = x.excess /\ new.cancels = n
  BY <1>1, <1>2 DEF Bucket
<1> QED
  BY <1>1, <1>3 DEF Emptied

(* The answer of a cancelled Wait.                                         *)
LEMMA CancelledInOrder ==
    ASSUME LimiterInv, NEW call, call = [Idle EXCEPT !.answer = "cancelled"]
    PROVE  call \in Call /\ InOrder(call) /\ ~Waiting(call) /\ call.answer # "refused"
<1>1. "cancelled" \in Answers /\ 0 \in 0 .. Len(lims)
  BY DEF Answers, LimiterInv, LimiterTypeOK
<1>2. call \in Call /\ call.pc = "idle" /\ call.lim = 0 /\ call.answer = "cancelled"
  BY <1>1, IdleTyped DEF Call
<1>3. InOrder(call) /\ ~Waiting(call)
  BY <1>1, <1>2 DEF InOrder, Waiting
<1> QED
  BY <1>2, <1>3

(* CancelAt, at whatever time it gets the lock, keeps the invariant.       *)
LEMMA CancelKeeps ==
    ASSUME LimiterInv, NEW c \in Callers, Cancel(c)
    PROVE  LimiterInv'
<1>1. PICK me : me = caller[c]
  OBVIOUS
<1>2. PICK latest : latest = CHOOSE a \in GrantTimes(me.lim) : \A b \in GrantTimes(me.lim) : b <= a
  OBVIOUS
<1>3. PICK lim : lim = lims[me.lim]
  OBVIOUS
<1>4. PICK x : x = CancelAt(lim, me.r, me.t, latest)
  OBVIOUS
<1>5. PICK new : new = [x EXCEPT !.cancels = @ + 1]
  OBVIOUS
<1>6. PICK call : call = [Idle EXCEPT !.answer = "cancelled"]
  OBVIOUS
<1>7. PICK p : p = me.r.n * TokenParts
  OBVIOUS
<1>8. /\ me.pc = "cancel" /\ lims' = [lims EXCEPT ![me.lim] = new]
      /\ granted' = [granted EXCEPT ![me.r.event].parts = 0]
      /\ caller' = [caller EXCEPT ![c] = call] /\ UNCHANGED <<option, now, cached, redis, asks>>
  BY <1>1, <1>2, <1>3, <1>4, <1>5, <1>6 DEF Cancel
<1>9. /\ me \in Call /\ me.lim = 1 /\ me.t \in Nat /\ me.r \in Reservation /\ me.r.n \in 1 .. Burst
      /\ option = "limiter" /\ Len(lims) = 1 /\ DOMAIN lims = {1} /\ lims[1] \in Bucket
      /\ lims[1].tokens <= Full /\ me.r.event \in DOMAIN granted
      /\ granted[me.r.event].lim = 1 /\ granted[me.r.event].at = me.r.act
      /\ granted[me.r.event].parts = me.r.n * TokenParts /\ me.r.n * TokenParts > 0
      /\ me.r.n * TokenParts \in Nat /\ me.r.act \in Int /\ me.r.act \in GrantTimes(1)
  BY <1>1, <1>8, CancelCall, Zenon
<1>10. latest \in Int /\ me.r.act <= latest /\ \A b \in GrantTimes(1) : b <= latest
  <2>1. granted \in Seq(Events) /\ 1 \in Nat /\ 0 \in Int
    BY DEF LimiterInv, LimiterTypeOK
  <2>2. GrantTimes(1) \subseteq Int
    BY <2>1, NothingGranted, Zenon
  <2>3. \E a \in GrantTimes(1) : \A b \in GrantTimes(1) : b <= a
    BY <1>9, <2>1, LatestExists, Zenon
  <2>4. latest \in GrantTimes(1) /\ \A b \in GrantTimes(1) : b <= latest
    BY <1>2, <1>9, <2>3
  <2> QED
    BY <1>9, <2>2, <2>4
<1>11. lim \in Bucket /\ lim.tokens <= Full /\ lim = lims[1] /\ p \in Nat /\ p > 0
       /\ p = granted[me.r.event].parts
  BY <1>3, <1>7, <1>9, Zenon
<1>12. /\ x \in Bucket /\ x.tokens <= Full /\ x.made = lim.made
       /\ lim.back <= x.back /\ lim.excess <= x.excess
       /\ \/ x = lim
          \/ Emptied(lim) + lim.back + lim.excess - p + (latest - me.r.act)
               <= Emptied(x) + x.back + x.excess
  <2>1. lim \in Bucket /\ lim.tokens <= Full /\ me.r \in Reservation /\ me.r.n \in 1 .. Burst /\ me.t \in Nat
    BY <1>9, <1>11, Zenon
  <2>2. latest \in Int /\ me.r.act <= latest
    BY <1>10
  <2> QED
    BY <1>4, <1>7, <2>1, <2>2, CancelRestores
<1>13. /\ new \in Bucket /\ new.tokens = x.tokens /\ new.last = x.last /\ new.made = x.made
       /\ new.back = x.back /\ new.excess = x.excess /\ new.cancels > 0 /\ Emptied(new) = Emptied(x)
  BY <1>5, <1>12, CancelCounted, Zenon
<1>14. call \in Call /\ InOrder(call) /\ ~Waiting(call) /\ call.answer # "refused"
  BY <1>6, CancelledInOrder, Zenon
<1>15. /\ new.tokens <= Full /\ new.made = lim.made /\ new.cancels > 0
       /\ lim.back <= new.back /\ lim.excess <= new.excess
       /\ \/ Emptied(new) + new.back + new.excess = Emptied(lim) + lim.back + lim.excess
          \/ Emptied(lim) + lim.back + lim.excess - p + (latest - me.r.act)
               <= Emptied(new) + new.back + new.excess
  BY <1>12, <1>13, Zenon
<1>16. Waiting(caller[c]) /\ caller[c].r.event = me.r.event
  BY <1>1, <1>8 DEF Waiting
<1>17. lims' = [lims EXCEPT ![1] = new]
  BY <1>8, <1>9
<1>18. Cancels(c, call, lim, new, me.r.event, me.r.act, p, latest)
  BY <1>8, <1>9, <1>10, <1>11, <1>14, <1>15, <1>16, <1>17, Zenon DEF Cancels
<1> QED
  BY <1>9, <1>10, <1>11, <1>13, <1>14, <1>18, CancelledKeeps, Zenon

(* Every step keeps the invariant.                                         *)
LEMMA NextLimiterKeeps == LimiterInv /\ [NextLimiter]_limiterVars => LimiterInv'
<1> SUFFICES ASSUME LimiterInv, [NextLimiter]_limiterVars
             PROVE  LimiterInv'
  OBVIOUS
<1>1. ASSUME NEW c \in Callers,
             AllowN(c) \/ WaitN(c) \/ WaitNContextOver(c) \/ LocalAllow(c) \/ RedisAllow(c)
      PROVE  LimiterInv'
  BY <1>1, CallsKeep
<1>2. ASSUME NEW c \in Callers, GetLimiter(c)
      PROVE  LimiterInv'
  BY <1>2, GetLimiterKeeps
<1>3. ASSUME NEW c \in Callers, LimiterAllow(c) \/ TimerFires(c) \/ ContextDone(c) \/ RedisFails(c)
      PROVE  LimiterInv'
  BY <1>3, MovesKeep
<1>4. ASSUME NEW c \in Callers, Reserve(c)
      PROVE  LimiterInv'
  BY <1>4, ReserveKeeps
<1>5. ASSUME NEW c \in Callers, Cancel(c)
      PROVE  LimiterInv'
  BY <1>5, CancelKeeps
<1>6. ASSUME NEW c \in Callers, RunScript(c)
      PROVE  LimiterInv'
  BY <1>6, ScriptKeeps
<1>7. now \in Nat /\ asks \in Nat
  BY DEF LimiterInv, LimiterTypeOK
<1>8. CASE TimePasses
  BY <1>7, <1>8, ClockKeeps DEF TimePasses
<1>9. CASE UNCHANGED limiterVars
  BY <1>7, <1>9, ClockKeeps DEF limiterVars
<1> QED
  BY <1>1, <1>2, <1>3, <1>4, <1>5, <1>6, <1>8, <1>9, Zenon DEF NextLimiter

(* The inductive invariant: what each bucket has granted is paid for by    *)
(* the burst and the time, and what it lacks it has granted.               *)
THEOREM LimiterInvariant == LimiterSpec => []LimiterInv
<1>1. InitLimiter => LimiterInv
  BY InitLimiterInv
<1>2. LimiterInv /\ [NextLimiter]_limiterVars => LimiterInv'
  BY NextLimiterKeeps
<1> QED
  BY <1>1, <1>2, PTL DEF LimiterSpec

(* RateRespected: whatever the order in which concurrent callers reach the *)
(* bucket with the times they read, and whatever waits they cancel, no     *)
(* stretch of time holds more than the burst and the rate allow, given how *)
(* far Reserve and Cancel were set back; for every burst and rate.         *)
THEOREM RateIsRespected == LimiterSpec => []RateRespected
<1>1. LimiterInv => RateRespected
  <2> SUFFICES ASSUME LimiterInv PROVE RateRespected
    OBVIOUS
  <2>1. StretchPays /\ LimitersMade /\ granted \in Seq(Events) /\ Len(lims) \in Nat
    BY DEF LimiterInv, LimiterTypeOK
  <2>2. ASSUME NEW l \in 0 .. Len(lims), NEW s \in GrantTimes(l), NEW t \in GrantTimes(l), s <= t
        PROVE  Granted(l, s, t) <= Full + (t - s) + Late(l)
    <3>1. l \in Nat /\ 0 \in Int
      BY <2>1
    <3>2. s \in Int /\ t \in Int
      BY <2>1, <3>1, NothingGranted
    <3> QED
      BY <2>1, <2>2, <3>2, Zenon DEF StretchPays
  <2>3. \A i, j \in DOMAIN lims : i < j => lims[j].made > lims[i].made + Expire
    BY <2>1 DEF LimitersMade
  <2> QED
    BY <2>2, <2>3 DEF RateRespected
<1> QED
  BY <1>1, LimiterInvariant, PTL

(* NoNeedlessRefusal: a bucket that refuses has granted so much that with  *)
(* the call some stretch would hold more than the burst and the rate allow.*)
THEOREM NoRefusalIsNeedless == LimiterSpec => []NoNeedlessRefusal
<1>1. LimiterInv => NoNeedlessRefusal
  BY DEF LimiterInv
<1> QED
  BY <1>1, LimiterInvariant, PTL
=============================================================================
