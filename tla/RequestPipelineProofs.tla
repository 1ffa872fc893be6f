----------------------- MODULE RequestPipelineProofs -----------------------
(***************************************************************************)
(* Proofs about RequestPipeline for any finite set of requests, any set of *)
(* certificates and paths, and any limits.  Every action concerns one      *)
(* request or one budget; StepCounts says how the four counts of           *)
(* PipelineInv follow that request, SpendSpent what becomes of the calls   *)
(* the budgets have allowed.                                               *)
(*                                                                         *)
(* And, in the second half, about RateLimiter, the limiter that the layers *)
(* ask, for any budgets, limit, window and failures of Redis.              *)
(***************************************************************************)
EXTENDS RequestPipeline, RateLimiter, FiniteSetTheorems, TLAPS

(***************************************************************************)
(* The keys of the budgets: no method is called "admit", so the admission  *)
(* budget of a certificate is none of its method budgets, and every budget *)
(* has a limit.                                                            *)
(***************************************************************************)
LEMMA Keys ==
    /\ "admit" \notin Method
    /\ \A p \in Known \cap Path : MethodOf[p] \in Method
    /\ \A c \in Client : <<"admit", c>> \in Key
    /\ \A m \in Method, c \in Client : <<m, c>> \in Key
    /\ \A k \in Key : LimitOf(k) \in Nat
<1>1. "admit" \notin Method
  BY DEF Method, MethodOf, Known
<1>2. /\ \A p \in Known \cap Path : MethodOf[p] \in Method
      /\ \A c \in Client : <<"admit", c>> \in Key
      /\ \A m \in Method, c \in Client : <<m, c>> \in Key
  BY DEF Method, Key
<1>3. \A m : PolicyOf(m) \in {"payment", "getinfo", "stream"}
  BY DEF PolicyOf
<1>4. \A k \in Key : LimitOf(k) \in Nat
  BY <1>3, RequestPipelineAssumption DEF LimitOf
<1> QED
  BY <1>1, <1>2, <1>4

(***************************************************************************)
(* Two sets of requests that agree on all but one request.                 *)
(***************************************************************************)
LEMMA CountChange ==
    ASSUME NEW S \in SUBSET Request, NEW T \in SUBSET Request, NEW r \in Request,
           \A q \in Request \ {r} : q \in S <=> q \in T
    PROVE  /\ Cardinality(S) \in Nat /\ Cardinality(T) \in Nat
           /\ (r \in S <=> r \in T) => Cardinality(T) = Cardinality(S)
           /\ r \notin S /\ r \in T => Cardinality(T) = Cardinality(S) + 1
           /\ r \in S /\ r \notin T => Cardinality(T) = Cardinality(S) - 1
<1>1. IsFiniteSet(S) /\ IsFiniteSet(T)
  BY FS_Subset, RequestPipelineAssumption
<1>2. Cardinality(S) \in Nat /\ Cardinality(T) \in Nat
  BY <1>1, FS_CardinalityType
<1>3. (r \in S <=> r \in T) => Cardinality(T) = Cardinality(S)
  <2>1. (r \in S <=> r \in T) => S = T
    OBVIOUS
  <2> QED
    BY <2>1
<1>4. r \notin S /\ r \in T => Cardinality(T) = Cardinality(S) + 1
  <2>1. r \notin S /\ r \in T => T = S \cup {r}
    OBVIOUS
  <2> QED
    BY <1>1, <2>1, FS_AddElement
<1>5. r \in S /\ r \notin T => Cardinality(T) = Cardinality(S) - 1
  <2>1. r \in S /\ r \notin T => T = S \ {r}
    OBVIOUS
  <2> QED
    BY <1>1, <2>1, FS_RemoveElement
<1> QED
  BY <1>2, <1>3, <1>4, <1>5

\* All that a step of request r leaves alone.
OthersStay(r) ==
    \A q \in Request \ {r} :
        /\ pc'[q] = pc[q] /\ cert'[q] = cert[q] /\ path'[q] = path[q]
        /\ q \in accepted' <=> q \in accepted
        /\ q \in executed' <=> q \in executed

\* r counts for one more in T than in S, or as much, or for one less.
Gains(n, r, S, T) ==
    /\ Cardinality(S) \in Nat /\ Cardinality(T) \in Nat
    /\ (r \in S <=> r \in T) => Cardinality(T) = n
    /\ r \notin S /\ r \in T => Cardinality(T) = n + 1
    /\ r \in S /\ r \notin T => Cardinality(T) = n - 1

(***************************************************************************)
(* A step of one request changes each count by that request alone.         *)
(***************************************************************************)
LEMMA StepCounts ==
    ASSUME accepted \subseteq Request, accepted' \subseteq Request,
           NEW r \in Request, OthersStay(r), NEW c, NEW k
    PROVE  /\ Gains(Cardinality(Reading(c)), r, Reading(c), Reading(c)')
           /\ Gains(Cardinality(Beyond(c)), r, Beyond(c), Beyond(c)')
           /\ Gains(Cardinality(Consumers(k)), r, Consumers(k), Consumers(k)')
           /\ Gains(Cardinality(Carried(k)), r, Carried(k), Carried(k)')
<1>1. /\ Reading(c) \in SUBSET Request /\ Reading(c)' \in SUBSET Request
      /\ \A q \in Request \ {r} : q \in Reading(c) <=> q \in Reading(c)'
  BY DEF Reading, OthersStay
<1>2. /\ Beyond(c) \in SUBSET Request /\ Beyond(c)' \in SUBSET Request
      /\ \A q \in Request \ {r} : q \in Beyond(c) <=> q \in Beyond(c)'
  BY DEF Beyond, OthersStay
<1>3. /\ Consumers(k) \in SUBSET Request /\ Consumers(k)' \in SUBSET Request
      /\ \A q \in Request \ {r} : q \in Consumers(k) <=> q \in Consumers(k)'
  BY DEF Consumers, OthersStay, QuotaKey
<1>4. /\ Carried(k) \in SUBSET Request /\ Carried(k)' \in SUBSET Request
      /\ \A q \in Request \ {r} : q \in Carried(k) <=> q \in Carried(k)'
  BY DEF Carried, OthersStay, QuotaKey
<1>5. Gains(Cardinality(Reading(c)), r, Reading(c), Reading(c)')
  BY <1>1, CountChange DEF Gains
<1>6. Gains(Cardinality(Beyond(c)), r, Beyond(c), Beyond(c)')
  BY <1>2, CountChange DEF Gains
<1>7. Gains(Cardinality(Consumers(k)), r, Consumers(k), Consumers(k)')
  BY <1>3, CountChange DEF Gains
<1>8. Gains(Cardinality(Carried(k)), r, Carried(k), Carried(k)')
  BY <1>4, CountChange DEF Gains
<1> QED
  BY <1>5, <1>6, <1>7, <1>8

\* The part of TypeOK about the budgets.
BudgetsOK ==
    /\ tokens \in [Key -> Nat] /\ \A k \in Key : tokens[k] <= LimitOf(k)
    /\ spent \in [Key -> Nat]

(***************************************************************************)
(* A call that is allowed counts once, in its own budget.                  *)
(***************************************************************************)
LEMMA SpendSpent ==
    ASSUME BudgetsOK, NEW k \in Key, Allows(k), Spend(k)
    PROVE  /\ BudgetsOK'
           /\ spent'[k] = spent[k] + 1
           /\ \A j \in Key : spent[j] \in Int /\ (j # k => spent'[j] = spent[j])
  BY Keys, RequestPipelineAssumption DEF BudgetsOK, Allows, Spend

(***************************************************************************)
(* Whatever becomes of a budget, what it has allowed stays allowed.        *)
(***************************************************************************)
LEMMA RefreshSpent ==
    ASSUME BudgetsOK, NEW k \in Key, Refresh(k)
    PROVE  /\ BudgetsOK'
           /\ \A j \in Key : spent'[j] = spent[j]
  BY Keys, RequestPipelineAssumption DEF BudgetsOK, Refresh

(***************************************************************************)
(* A request on a known path has a quota, which is no admission budget.    *)
(***************************************************************************)
LEMMA QuotaKeyType ==
    ASSUME PipelineInv, NEW r \in Request, path[r] \in Known, cert[r] \in Client
    PROVE  QuotaKey(r) \in Key /\ QuotaKey(r)[1] # "admit"
<1>1. path[r] \in Known \cap Path
  BY DEF PipelineInv, TypeOK, Known, MethodOf
<1> QED
  BY <1>1, Keys DEF QuotaKey

(***************************************************************************)
(* A certificate has no more requests beyond the body than there are.      *)
(***************************************************************************)
LEMMA BeyondBound ==
    /\ Cardinality(Request) \in Nat
    /\ \A c : Cardinality(Beyond(c)') <= Cardinality(Request)
  BY FS_CardinalityType, FS_Subset, RequestPipelineAssumption DEF Beyond

(***************************************************************************)
(* No request, no account.                                                 *)
(***************************************************************************)
LEMMA InitInv == Init => PipelineInv
<1> SUFFICES ASSUME Init PROVE PipelineInv
  OBVIOUS
<1>1. TypeOK
  BY Keys, BeyondBound, RequestPipelineAssumption DEF Init, TypeOK
<1>2. LayersPassed
  BY DEF Init, LayersPassed, InAwait
<1>3. /\ \A c \in Client : Reading(c) = {} /\ Beyond(c) = {}
      /\ \A k \in Key : Consumers(k) = {} /\ Carried(k) = {}
  BY DEF Init, Reading, Beyond, Consumers, Carried
<1>4. \A k \in Key : spent[k] = 0
  BY Keys DEF Init
<1>5. /\ \A c \in Client : Cardinality(Reading(c)) = 0 /\ Cardinality(Beyond(c)) = 0
      /\ \A k \in Key : Cardinality(Consumers(k)) = 0 /\ Cardinality(Carried(k)) = 0
  BY <1>3, FS_EmptySet
<1>6. AdmissionAccount
  <2> SUFFICES ASSUME NEW c \in Client
               PROVE  /\ asked[c] + Cardinality(Reading(c)) <= spent[<<"admit", c>>]
                      /\ asked[c] <= Cardinality(Beyond(c))
    BY DEF AdmissionAccount
  <2>1. asked[c] = 0 /\ spent[<<"admit", c>>] = 0
    BY <1>4, Keys DEF Init
  <2> QED
    BY <1>5, <2>1
<1>7. QuotaAccount
  <2> SUFFICES ASSUME NEW m \in Method, NEW c \in Client
               PROVE  /\ spent[<<m, c>>] <= Cardinality(Consumers(<<m, c>>))
                      /\ Cardinality(Carried(<<m, c>>)) <= spent[<<m, c>>]
    BY DEF QuotaAccount
  <2>1. <<m, c>> \in Key
    BY Keys
  <2> QED
    BY <1>4, <1>5, <2>1
<1> QED
  BY <1>1, <1>2, <1>6, <1>7 DEF PipelineInv

(***************************************************************************)
(* A limiter that allows more or less from now on keeps the invariant.     *)
(***************************************************************************)
LEMMA RefreshPreserves ==
    ASSUME PipelineInv, NEW k \in Key, Refresh(k)
    PROVE  PipelineInv'
<1>1. /\ UNCHANGED <<cert, path, pc, body, asked, accepted, executed>>
      /\ BudgetsOK' /\ \A j \in Key : spent'[j] = spent[j]
  BY RefreshSpent DEF PipelineInv, TypeOK, BudgetsOK, Refresh, what, seen
<1>2. /\ \A c : Reading(c)' = Reading(c) /\ Beyond(c)' = Beyond(c)
      /\ \A j : Consumers(j)' = Consumers(j) /\ Carried(j)' = Carried(j)
  BY <1>1 DEF Reading, Beyond, Consumers, Carried, QuotaKey
<1>3. TypeOK'
  BY <1>1 DEF PipelineInv, TypeOK, BudgetsOK
<1>4. LayersPassed'
  BY <1>1 DEF PipelineInv, LayersPassed
<1>5. AdmissionAccount'
  BY <1>1, <1>2, Keys DEF PipelineInv, AdmissionAccount
<1>6. QuotaAccount'
  BY <1>1, <1>2, Keys DEF PipelineInv, QuotaAccount
<1> QED
  BY <1>3, <1>4, <1>5, <1>6 DEF PipelineInv

(***************************************************************************)
(* The arrival of a request keeps the invariant: it counts nowhere.        *)
(***************************************************************************)
LEMMA IdentifyPreserves ==
    ASSUME PipelineInv, NEW r \in Request, Identify(r)
    PROVE  PipelineInv'
<1>1. PICK c \in Client \cup {NoCert}, l \in {"unauthenticated", "admission"} :
        /\ cert' = [cert EXCEPT ![r] = c] /\ pc' = [pc EXCEPT ![r] = l]
        /\ l = "admission" => c \in Client
  BY DEF Identify, End, Goto
<1>2. /\ pc[r] = "idle" /\ body' \in [Request -> 0..MaxBody]
      /\ UNCHANGED <<path, tokens, spent, asked, accepted, executed>>
      /\ \A k : spent'[k] = spent[k]
  BY RequestPipelineAssumption
  DEF PipelineInv, TypeOK, Identify, End, Goto, budgets, seen
<1>3. TypeOK'
  BY <1>1, <1>2 DEF PipelineInv, TypeOK, InAwait, Ended, Status
<1>4. LayersPassed'
  BY <1>1, <1>2 DEF PipelineInv, TypeOK, LayersPassed, InAwait, Ended, Status
<1>5. OthersStay(r)
  BY <1>1, <1>2 DEF PipelineInv, TypeOK, OthersStay
<1>6. AdmissionAccount'
  <2> SUFFICES ASSUME NEW d \in Client
               PROVE  /\ asked[d] + Cardinality(Reading(d)') <= spent[<<"admit", d>>]
                      /\ asked[d] <= Cardinality(Beyond(d)')
    BY <1>2 DEF AdmissionAccount
  <2>1. r \notin Reading(d) /\ r \notin Reading(d)' /\ r \notin Beyond(d)
    BY <1>1, <1>2 DEF PipelineInv, TypeOK, Reading, Beyond
  <2>2. /\ Cardinality(Reading(d)') = Cardinality(Reading(d))
        /\ Cardinality(Beyond(d)') >= Cardinality(Beyond(d))
    BY <1>2, <1>5, <2>1, StepCounts DEF PipelineInv, TypeOK, Gains
  <2>3. Cardinality(Beyond(d)) \in Nat /\ Cardinality(Beyond(d)') \in Nat
    BY <1>2, <1>5, StepCounts DEF PipelineInv, TypeOK, Gains
  <2> QED
    BY <2>2, <2>3 DEF PipelineInv, TypeOK, AdmissionAccount
<1>7. QuotaAccount'
  <2> SUFFICES ASSUME NEW m \in Method, NEW d \in Client
               PROVE  /\ spent[<<m, d>>] <= Cardinality(Consumers(<<m, d>>)')
                      /\ Cardinality(Carried(<<m, d>>)') <= spent[<<m, d>>]
    BY <1>2 DEF QuotaAccount
  <2>1. /\ r \notin accepted /\ r \notin executed
    BY <1>2 DEF PipelineInv, LayersPassed, Ended, Status
  <2>2. /\ r \notin Consumers(<<m, d>>) /\ r \notin Consumers(<<m, d>>)'
        /\ r \notin Carried(<<m, d>>) /\ r \notin Carried(<<m, d>>)'
    BY <1>1, <1>2, <2>1 DEF PipelineInv, TypeOK, Consumers, Carried
  <2>3. /\ Cardinality(Consumers(<<m, d>>)') = Cardinality(Consumers(<<m, d>>))
        /\ Cardinality(Carried(<<m, d>>)') = Cardinality(Carried(<<m, d>>))
    BY <1>2, <1>5, <2>2, StepCounts DEF PipelineInv, TypeOK, Gains
  <2> QED
    BY <2>3 DEF PipelineInv, QuotaAccount
<1> QED
  BY <1>3, <1>4, <1>6, <1>7 DEF PipelineInv

\* The budget a waiting request asks next.
Asks(r, k) ==
    \/ pc[r] = "admission" /\ k = <<"admit", cert[r]>>
    \/ pc[r] = "quota" /\ k = QuotaKey(r)

(***************************************************************************)
(* A request that ends keeps the invariant, wherever it waits, whether the *)
(* budget it asked was charged or not, and whether CLN acted or not.       *)
(***************************************************************************)
LEMMA EndPreserves ==
    ASSUME PipelineInv, NEW r \in Request, pc[r] \in InAwait,
           NEW l \in Ended, End(r, l), UNCHANGED <<cert, path, asked, accepted>>,
           \/ UNCHANGED <<tokens, spent>>
           \/ \E k : Asks(r, k) /\ Allows(k) /\ Spend(k),
           \/ UNCHANGED executed
           \/ pc[r] = "service" /\ executed' = executed \cup {r}
    PROVE  PipelineInv'
<1>1. /\ pc' \in [Request -> {"idle"} \cup InAwait \cup Ended]
      /\ pc'[r] = l /\ \A q \in Request \ {r} : pc'[q] = pc[q]
      /\ body' \in [Request -> 0..MaxBody]
      /\ executed' \subseteq Request
  BY RequestPipelineAssumption DEF PipelineInv, TypeOK, End
<1>2. OthersStay(r)
  BY <1>1 DEF OthersStay
<1>3. /\ cert[r] \in Client
      /\ pc[r] # "admission" => path[r] \in Known
      /\ pc[r] \in {"quota", "service"} => r \in accepted
      /\ r \notin executed
  BY DEF PipelineInv, LayersPassed, InAwait, Ended, Status
<1>4. \A k : Asks(r, k) => k \in Key
  BY <1>3, Keys, QuotaKeyType DEF Asks
<1>5. /\ BudgetsOK'
      /\ \A k \in Key : spent[k] \in Int /\ spent'[k] \in {spent[k], spent[k] + 1}
      /\ \A k \in Key : ~Asks(r, k) => spent'[k] = spent[k]
  <2>1. BudgetsOK
    BY DEF PipelineInv, TypeOK, BudgetsOK
  <2>2. CASE UNCHANGED <<tokens, spent>>
    <3>1. BudgetsOK' /\ \A k \in Key : spent'[k] = spent[k]
      BY <2>1, <2>2 DEF BudgetsOK
    <3>2. \A k \in Key : spent[k] \in Int
      BY <2>1, Keys, RequestPipelineAssumption DEF BudgetsOK
    <3> QED
      BY <3>1, <3>2
  <2>3. CASE \E k : Asks(r, k) /\ Allows(k) /\ Spend(k)
    <3>1. PICK k : Asks(r, k) /\ Allows(k) /\ Spend(k)
      BY <2>3
    <3>2. k \in Key
      BY <1>4, <3>1
    <3> QED
      BY <2>1, <3>1, <3>2, SpendSpent
  <2> QED
    BY <2>2, <2>3
<1>6. TypeOK'
  BY <1>1, <1>5 DEF PipelineInv, TypeOK, BudgetsOK
<1>7. LayersPassed'
  BY <1>1, <1>3 DEF PipelineInv, LayersPassed, InAwait, Ended, Status
<1>8. AdmissionAccount'
  <2> SUFFICES ASSUME NEW c \in Client
               PROVE  /\ asked[c] + Cardinality(Reading(c)') <= spent'[<<"admit", c>>]
                      /\ asked[c] <= Cardinality(Beyond(c)')
    BY DEF AdmissionAccount
  <2>1. /\ r \notin Reading(c)'
        /\ r \in Beyond(c) => r \in Beyond(c)'
    BY <1>1 DEF Reading, Beyond, Ended, Status
  <2>2. /\ Cardinality(Reading(c)) \in Nat /\ Cardinality(Reading(c)') \in Nat
        /\ Cardinality(Beyond(c)) \in Nat /\ Cardinality(Beyond(c)') \in Nat
        /\ Cardinality(Reading(c)') <= Cardinality(Reading(c))
        /\ Cardinality(Beyond(c)') >= Cardinality(Beyond(c))
    BY <1>2, <2>1, StepCounts DEF PipelineInv, TypeOK, Gains
  <2>3. /\ asked[c] + Cardinality(Reading(c)) <= spent[<<"admit", c>>]
        /\ asked[c] <= Cardinality(Beyond(c)) /\ asked[c] \in Nat
    BY DEF PipelineInv, TypeOK, AdmissionAccount
  <2>4. /\ spent[<<"admit", c>>] \in Int
        /\ spent'[<<"admit", c>>] \in {spent[<<"admit", c>>], spent[<<"admit", c>>] + 1}
    BY <1>5, Keys
  <2> QED
    BY <2>2, <2>3, <2>4
<1>9. QuotaAccount'
  <2> SUFFICES ASSUME NEW m \in Method, NEW c \in Client
               PROVE  /\ spent'[<<m, c>>] <= Cardinality(Consumers(<<m, c>>)')
                      /\ Cardinality(Carried(<<m, c>>)') <= spent'[<<m, c>>]
    BY DEF QuotaAccount
  <2> DEFINE k == <<m, c>>
  <2>1. k \in Key /\ m # "admit"
    BY Keys
  <2>2. /\ r \in Consumers(k) => r \in Consumers(k)'
        /\ Asks(r, k) => r \notin Consumers(k) /\ r \in Consumers(k)'
    BY <1>1, <1>3, <2>1 DEF Consumers, QuotaKey, Asks, Ended, Status
  <2>3. r \in Carried(k)' => r \in Carried(k)
    BY <1>1, <1>3 DEF Carried, QuotaKey, Ended, Status
  <2>4. /\ Cardinality(Consumers(k)) \in Nat /\ Cardinality(Consumers(k)') \in Nat
        /\ Cardinality(Carried(k)) \in Nat /\ Cardinality(Carried(k)') \in Nat
        /\ Cardinality(Consumers(k)') >= Cardinality(Consumers(k))
        /\ Asks(r, k) => Cardinality(Consumers(k)') = Cardinality(Consumers(k)) + 1
        /\ Cardinality(Carried(k)') <= Cardinality(Carried(k))
    BY <1>2, <2>2, <2>3, StepCounts DEF PipelineInv, TypeOK, Gains
  <2>5. /\ spent[k] <= Cardinality(Consumers(k))
        /\ Cardinality(Carried(k)) <= spent[k]
    BY DEF PipelineInv, QuotaAccount
  <2>6. /\ spent[k] \in Int
        /\ spent'[k] \in {spent[k], spent[k] + 1}
        /\ ~Asks(r, k) => spent'[k] = spent[k]
    BY <1>5, <2>1
  <2> HIDE DEF k
  <2>7. spent'[k] <= Cardinality(Consumers(k)') /\ Cardinality(Carried(k)') <= spent'[k]
    BY <2>4, <2>5, <2>6
  <2> QED
    BY <2>7 DEF k
<1> QED
  BY <1>6, <1>7, <1>8, <1>9 DEF PipelineInv

(***************************************************************************)
(* AdmissionLayer and AuthLayer keep the invariant: a request that goes on *)
(* to its body was charged.                                                *)
(***************************************************************************)
LEMMA AdmitPreserves ==
    ASSUME PipelineInv, NEW r \in Request, Admit(r)
    PROVE  PipelineInv'
<1> DEFINE k == <<"admit", cert[r]>>
<1>1. /\ pc[r] = "admission" /\ pc[r] \in InAwait /\ cert[r] \in Client /\ k \in Key
      /\ UNCHANGED <<cert, asked, accepted, executed>>
  BY Keys DEF PipelineInv, LayersPassed, Admit, InAwait, seen
<1>2. CASE UNCHANGED path /\ \E l \in Ended : End(r, l)
  <2>1. Asks(r, k)
    BY <1>1 DEF Asks
  <2>2. UNCHANGED <<tokens, spent>> \/ (Allows(k) /\ Spend(k))
    BY DEF Admit, budgets
  <2> QED
    BY <1>1, <1>2, <2>1, <2>2, EndPreserves
<1>3. CASE /\ Allows(k) /\ Spend(k) /\ Goto(r, "body")
           /\ \E p \in Path \cap Known : path' = [path EXCEPT ![r] = p]
  <2>1. PICK p \in Path \cap Known : path' = [path EXCEPT ![r] = p]
    BY <1>3
  <2>2. /\ pc' \in [Request -> {"idle"} \cup InAwait \cup Ended]
        /\ pc'[r] = "body" /\ \A q \in Request \ {r} : pc'[q] = pc[q]
        /\ path' \in [Request -> Path \cup {"Unknown"}]
        /\ path'[r] = p /\ \A q \in Request \ {r} : path'[q] = path[q]
        /\ UNCHANGED body
    BY <1>3, <2>1 DEF PipelineInv, TypeOK, Goto, InAwait
  <2>3. OthersStay(r)
    BY <1>1, <2>2 DEF OthersStay
  <2>4. /\ BudgetsOK' /\ spent'[k] = spent[k] + 1
        /\ \A j \in Key : spent[j] \in Int /\ (j # k => spent'[j] = spent[j])
    BY <1>1, <1>3, SpendSpent DEF PipelineInv, TypeOK, BudgetsOK
  <2>5. TypeOK'
    BY <1>1, <2>2, <2>4 DEF PipelineInv, TypeOK, BudgetsOK
  <2>6. r \notin accepted /\ r \notin executed
    BY <1>1 DEF PipelineInv, LayersPassed, Ended, Status
  <2>7. LayersPassed'
    BY <1>1, <2>2, <2>6 DEF PipelineInv, LayersPassed, InAwait
  <2>8. AdmissionAccount'
    <3> SUFFICES ASSUME NEW c \in Client
                 PROVE  /\ asked[c] + Cardinality(Reading(c)') <= spent'[<<"admit", c>>]
                        /\ asked[c] <= Cardinality(Beyond(c)')
      BY <1>1 DEF AdmissionAccount
    <3>1. /\ r \notin Reading(c) /\ (r \in Reading(c)' <=> c = cert[r])
          /\ r \notin Beyond(c) /\ r \notin Beyond(c)'
      BY <1>1, <2>2 DEF Reading, Beyond
    <3>2. /\ Cardinality(Reading(c)) \in Nat /\ Cardinality(Reading(c)') \in Nat
          /\ Cardinality(Reading(c)') <= Cardinality(Reading(c)) + 1
          /\ c # cert[r] => Cardinality(Reading(c)') = Cardinality(Reading(c))
          /\ Cardinality(Beyond(c)') = Cardinality(Beyond(c))
      BY <1>1, <2>3, <3>1, StepCounts DEF PipelineInv, TypeOK, Gains
    <3>3. /\ asked[c] + Cardinality(Reading(c)) <= spent[<<"admit", c>>]
          /\ asked[c] <= Cardinality(Beyond(c)) /\ asked[c] \in Nat
      BY DEF PipelineInv, TypeOK, AdmissionAccount
    <3>4. CASE c = cert[r]
      <4>1. spent'[<<"admit", c>>] = spent[<<"admit", c>>] + 1 /\ spent[<<"admit", c>>] \in Int
        BY <1>1, <2>4, <3>4
      <4> QED
        BY <3>2, <3>3, <4>1
    <3>5. CASE c # cert[r]
      <4>1. <<"admit", c>> \in Key /\ <<"admit", c>> # k
        BY <3>5, Keys
      <4>2. spent'[<<"admit", c>>] = spent[<<"admit", c>>]
        BY <2>4, <4>1
      <4> QED
        BY <3>2, <3>3, <3>5, <4>2
    <3> QED
      BY <3>4, <3>5
  <2>9. QuotaAccount'
    <3> SUFFICES ASSUME NEW m \in Method, NEW c \in Client
                 PROVE  /\ spent'[<<m, c>>] <= Cardinality(Consumers(<<m, c>>)')
                        /\ Cardinality(Carried(<<m, c>>)') <= spent'[<<m, c>>]
      BY DEF QuotaAccount
    <3>1. <<m, c>> \in Key /\ <<m, c>> # k
      BY Keys
    <3>2. spent'[<<m, c>>] = spent[<<m, c>>]
      BY <2>4, <3>1
    <3>3. /\ r \notin Consumers(<<m, c>>) /\ r \notin Consumers(<<m, c>>)'
          /\ r \notin Carried(<<m, c>>) /\ r \notin Carried(<<m, c>>)'
      BY <1>1, <2>2, <2>6 DEF Consumers, Carried
    <3>4. /\ Cardinality(Consumers(<<m, c>>)') = Cardinality(Consumers(<<m, c>>))
          /\ Cardinality(Carried(<<m, c>>)') = Cardinality(Carried(<<m, c>>))
      BY <1>1, <2>3, <3>3, StepCounts DEF PipelineInv, TypeOK, Gains
    <3> QED
      BY <3>2, <3>4 DEF PipelineInv, QuotaAccount
  <2> QED
    BY <2>5, <2>7, <2>8, <2>9 DEF PipelineInv
<1>4. QED
  <2>1. \/ End(r, "exhausted") /\ UNCHANGED path
        \/ End(r, "unauthenticated") /\ UNCHANGED path
        \/ /\ Allows(k) /\ Spend(k) /\ Goto(r, "body")
           /\ \E p \in Path \cap Known : path' = [path EXCEPT ![r] = p]
    BY DEF Admit, Examine
  <2> QED
    BY <1>2, <1>3, <2>1 DEF Ended, Status

(***************************************************************************)
(* The end of the body keeps the invariant: a request that asks CLN stops  *)
(* counting as one that is read and counts as one beyond.                  *)
(***************************************************************************)
LEMMA EndOfBodyPreserves ==
    ASSUME PipelineInv, NEW r \in Request, EndOfBody(r)
    PROVE  PipelineInv'
<1>1. /\ pc[r] = "body" /\ cert[r] \in Client /\ path[r] \in Known
      /\ r \notin accepted /\ r \notin executed
      /\ UNCHANGED <<cert, path, body, tokens, spent, accepted, executed>>
  BY DEF PipelineInv, LayersPassed, EndOfBody, Goto, InAwait, Ended, Status, what, budgets
<1>2. /\ pc' \in [Request -> {"idle"} \cup InAwait \cup Ended]
      /\ pc'[r] = "check_rune" /\ \A q \in Request \ {r} : pc'[q] = pc[q]
  BY DEF PipelineInv, TypeOK, EndOfBody, Goto, InAwait
<1>3. /\ asked \in [Client -> Nat] /\ asked' \in [Client -> Nat]
      /\ asked'[cert[r]] = asked[cert[r]] + 1
      /\ \A c \in Client : c # cert[r] => asked'[c] = asked[c]
  BY <1>1, BeyondBound DEF PipelineInv, TypeOK, EndOfBody
<1>4. OthersStay(r)
  BY <1>1, <1>2 DEF OthersStay
<1>5. LayersPassed'
  BY <1>1, <1>2 DEF PipelineInv, LayersPassed, InAwait, Ended, Status
<1>6. AdmissionAccount'
  <2> SUFFICES ASSUME NEW c \in Client
               PROVE  /\ asked'[c] + Cardinality(Reading(c)') <= spent[<<"admit", c>>]
                      /\ asked'[c] <= Cardinality(Beyond(c)')
    BY <1>1 DEF AdmissionAccount
  <2>1. /\ r \notin Reading(c)' /\ (r \in Reading(c) <=> c = cert[r])
        /\ r \notin Beyond(c) /\ (r \in Beyond(c)' <=> c = cert[r])
    BY <1>1, <1>2 DEF Reading, Beyond
  <2>2. /\ Cardinality(Reading(c)) \in Nat /\ Cardinality(Beyond(c)) \in Nat
        /\ Cardinality(Reading(c)') =
             IF c = cert[r] THEN Cardinality(Reading(c)) - 1 ELSE Cardinality(Reading(c))
        /\ Cardinality(Beyond(c)') =
             IF c = cert[r] THEN Cardinality(Beyond(c)) + 1 ELSE Cardinality(Beyond(c))
    BY <1>1, <1>4, <2>1, StepCounts DEF PipelineInv, TypeOK, Gains
  <2>3. /\ asked[c] + Cardinality(Reading(c)) <= spent[<<"admit", c>>]
        /\ asked[c] <= Cardinality(Beyond(c))
    BY DEF PipelineInv, AdmissionAccount
  <2> QED
    BY <1>3, <2>2, <2>3
<1>7. TypeOK'
  <2>1. \A c \in Client : asked'[c] <= Cardinality(Beyond(c)')
    BY <1>6 DEF AdmissionAccount
  <2>2. \A c \in Client : Cardinality(Beyond(c)') \in Nat
    BY <1>1, <1>4, StepCounts DEF PipelineInv, TypeOK, Gains
  <2>3. asked' \in [Client -> 0..Cardinality(Request)]
    BY <1>3, <2>1, <2>2, BeyondBound
  <2> QED
    BY <1>1, <1>2, <2>3 DEF PipelineInv, TypeOK
<1>8. QuotaAccount'
  <2> SUFFICES ASSUME NEW m \in Method, NEW c \in Client
               PROVE  /\ spent[<<m, c>>] <= Cardinality(Consumers(<<m, c>>)')
                      /\ Cardinality(Carried(<<m, c>>)') <= spent[<<m, c>>]
    BY <1>1 DEF QuotaAccount
  <2>1. /\ r \notin Consumers(<<m, c>>) /\ r \notin Consumers(<<m, c>>)'
        /\ r \notin Carried(<<m, c>>) /\ r \notin Carried(<<m, c>>)'
    BY <1>1, <1>2 DEF Consumers, Carried
  <2>2. /\ Cardinality(Consumers(<<m, c>>)') = Cardinality(Consumers(<<m, c>>))
        /\ Cardinality(Carried(<<m, c>>)') = Cardinality(Carried(<<m, c>>))
    BY <1>1, <1>4, <2>1, StepCounts DEF PipelineInv, TypeOK, Gains
  <2> QED
    BY <2>2 DEF PipelineInv, QuotaAccount
<1> QED
  BY <1>5, <1>6, <1>7, <1>8 DEF PipelineInv

(***************************************************************************)
(* The answer of CLN to check_rune keeps the invariant: an accepted        *)
(* request has not consumed quota yet.                                     *)
(***************************************************************************)
LEMMA RuneAcceptedPreserves ==
    ASSUME PipelineInv, NEW r \in Request, RuneAccepted(r)
    PROVE  PipelineInv'
<1>1. /\ pc[r] = "check_rune" /\ cert[r] \in Client /\ path[r] \in Known
      /\ r \notin accepted /\ r \notin executed
      /\ accepted' = accepted \cup {r}
      /\ UNCHANGED <<cert, path, body, tokens, spent, asked, executed>>
  BY DEF PipelineInv, LayersPassed, RuneAccepted, Goto, InAwait, Ended, Status, what, budgets
<1>2. /\ pc' \in [Request -> {"idle"} \cup InAwait \cup Ended]
      /\ pc'[r] = "quota" /\ \A q \in Request \ {r} : pc'[q] = pc[q]
      /\ accepted \subseteq Request /\ accepted' \subseteq Request
  BY <1>1 DEF PipelineInv, TypeOK, RuneAccepted, Goto, InAwait
<1>3. OthersStay(r)
  BY <1>1, <1>2 DEF OthersStay
<1>4. TypeOK'
  BY <1>1, <1>2 DEF PipelineInv, TypeOK
<1>5. LayersPassed'
  BY <1>1, <1>2 DEF PipelineInv, LayersPassed, InAwait, Ended, Status
<1>6. AdmissionAccount'
  <2> SUFFICES ASSUME NEW c \in Client
               PROVE  /\ asked[c] + Cardinality(Reading(c)') <= spent[<<"admit", c>>]
                      /\ asked[c] <= Cardinality(Beyond(c)')
    BY <1>1 DEF AdmissionAccount
  <2>1. /\ r \notin Reading(c) /\ r \notin Reading(c)'
        /\ r \in Beyond(c) <=> r \in Beyond(c)'
    BY <1>1, <1>2 DEF Reading, Beyond
  <2>2. /\ Cardinality(Reading(c)') = Cardinality(Reading(c))
        /\ Cardinality(Beyond(c)') = Cardinality(Beyond(c))
    BY <1>2, <1>3, <2>1, StepCounts DEF Gains
  <2> QED
    BY <2>2 DEF PipelineInv, AdmissionAccount
<1>7. QuotaAccount'
  <2> SUFFICES ASSUME NEW m \in Method, NEW c \in Client
               PROVE  /\ spent[<<m, c>>] <= Cardinality(Consumers(<<m, c>>)')
                      /\ Cardinality(Carried(<<m, c>>)') <= spent[<<m, c>>]
    BY <1>1 DEF QuotaAccount
  <2>1. /\ r \notin Consumers(<<m, c>>) /\ r \notin Consumers(<<m, c>>)'
        /\ r \notin Carried(<<m, c>>) /\ r \notin Carried(<<m, c>>)'
    BY <1>1, <1>2 DEF Consumers, Carried
  <2>2. /\ Cardinality(Consumers(<<m, c>>)') = Cardinality(Consumers(<<m, c>>))
        /\ Cardinality(Carried(<<m, c>>)') = Cardinality(Carried(<<m, c>>))
    BY <1>2, <1>3, <2>1, StepCounts DEF Gains
  <2> QED
    BY <2>2 DEF PipelineInv, QuotaAccount
<1> QED
  BY <1>4, <1>5, <1>6, <1>7 DEF PipelineInv

(***************************************************************************)
(* RateLimitLayer keeps the invariant: a request it lets through is        *)
(* charged to its method's budget, as a consumer and for its effect.       *)
(***************************************************************************)
LEMMA CheckQuotaPreserves ==
    ASSUME PipelineInv, NEW r \in Request, CheckQuota(r)
    PROVE  PipelineInv'
<1>1. /\ pc[r] = "quota" /\ pc[r] \in InAwait /\ cert[r] \in Client /\ path[r] \in Known
      /\ r \in accepted /\ r \notin executed
      /\ UNCHANGED <<cert, path, asked, accepted, executed>>
  BY DEF PipelineInv, LayersPassed, CheckQuota, InAwait, Ended, Status, what, seen
<1>2. QuotaKey(r) \in Key
  BY <1>1, QuotaKeyType
<1>3. CASE End(r, "exhausted") /\ UNCHANGED budgets
  BY <1>1, <1>3, EndPreserves DEF budgets, Ended, Status
<1>4. CASE Allows(QuotaKey(r)) /\ Spend(QuotaKey(r)) /\ Goto(r, "service")
  <2>1. /\ pc' \in [Request -> {"idle"} \cup InAwait \cup Ended]
        /\ pc'[r] = "service" /\ \A q \in Request \ {r} : pc'[q] = pc[q]
        /\ accepted \subseteq Request /\ UNCHANGED body
    BY <1>4 DEF PipelineInv, TypeOK, Goto, InAwait
  <2>2. OthersStay(r)
    BY <1>1, <2>1 DEF OthersStay
  <2>3. PICK j \in Key : j = QuotaKey(r)
    BY <1>2
  <2>4. /\ BudgetsOK' /\ spent'[j] = spent[j] + 1
        /\ \A i \in Key : spent[i] \in Int /\ (i # j => spent'[i] = spent[i])
    BY <1>4, <2>3, SpendSpent DEF PipelineInv, TypeOK, BudgetsOK
  <2>5. TypeOK'
    BY <1>1, <2>1, <2>4 DEF PipelineInv, TypeOK, BudgetsOK
  <2>6. LayersPassed'
    BY <1>1, <2>1 DEF PipelineInv, LayersPassed, InAwait, Ended, Status
  <2>7. AdmissionAccount'
    <3> SUFFICES ASSUME NEW c \in Client
                 PROVE  /\ asked[c] + Cardinality(Reading(c)') <= spent'[<<"admit", c>>]
                        /\ asked[c] <= Cardinality(Beyond(c)')
      BY <1>1 DEF AdmissionAccount
    <3>1. /\ r \notin Reading(c) /\ r \notin Reading(c)'
          /\ r \in Beyond(c) <=> r \in Beyond(c)'
      BY <1>1, <2>1 DEF Reading, Beyond
    <3>2. /\ Cardinality(Reading(c)') = Cardinality(Reading(c))
          /\ Cardinality(Beyond(c)') = Cardinality(Beyond(c))
      BY <1>1, <2>1, <2>2, <3>1, StepCounts DEF Gains
    <3>3. <<"admit", c>> \in Key /\ <<"admit", c>> # j
      BY <1>1, <2>3, Keys, QuotaKeyType
    <3>4. spent'[<<"admit", c>>] = spent[<<"admit", c>>]
      BY <2>4, <3>3
    <3> QED
      BY <3>2, <3>4 DEF PipelineInv, AdmissionAccount
  <2>8. QuotaAccount'
    <3> SUFFICES ASSUME NEW m \in Method, NEW c \in Client
                 PROVE  /\ spent'[<<m, c>>] <= Cardinality(Consumers(<<m, c>>)')
                        /\ Cardinality(Carried(<<m, c>>)') <= spent'[<<m, c>>]
      BY DEF QuotaAccount
    <3> DEFINE k == <<m, c>>
    <3>1. k \in Key
      BY Keys
    <3> HIDE DEF k
    <3>2. /\ r \notin Consumers(k) /\ (r \in Consumers(k)' <=> k = j)
          /\ r \notin Carried(k) /\ (r \in Carried(k)' <=> k = j)
      BY <1>1, <2>1, <2>3 DEF Consumers, Carried, QuotaKey
    <3>3. /\ Cardinality(Consumers(k)) \in Nat /\ Cardinality(Carried(k)) \in Nat
          /\ Cardinality(Consumers(k)') =
               IF k = j THEN Cardinality(Consumers(k)) + 1 ELSE Cardinality(Consumers(k))
          /\ Cardinality(Carried(k)') =
               IF k = j THEN Cardinality(Carried(k)) + 1 ELSE Cardinality(Carried(k))
      BY <1>1, <2>1, <2>2, <3>2, StepCounts DEF Gains
    <3>4. spent[k] <= Cardinality(Consumers(k)) /\ Cardinality(Carried(k)) <= spent[k]
      BY DEF PipelineInv, QuotaAccount, k
    <3>5. /\ spent[k] \in Int
          /\ spent'[k] = IF k = j THEN spent[k] + 1 ELSE spent[k]
      BY <2>4, <3>1
    <3>6. spent'[k] <= Cardinality(Consumers(k)') /\ Cardinality(Carried(k)') <= spent'[k]
      BY <3>3, <3>4, <3>5
    <3> QED
      BY <3>6 DEF k
  <2> QED
    BY <2>5, <2>6, <2>7, <2>8 DEF PipelineInv
<1> QED
  BY <1>3, <1>4 DEF CheckQuota

(***************************************************************************)
(* read_body_limited keeps the invariant: what it keeps of a body is       *)
(* within max_request_body_bytes.                                          *)
(***************************************************************************)
LEMMA ReadFramePreserves ==
    ASSUME PipelineInv, NEW r \in Request, ReadFrame(r)
    PROVE  PipelineInv'
<1>1. /\ pc[r] \in InAwait
      /\ UNCHANGED <<cert, path, tokens, spent, asked, accepted, executed>>
  BY DEF ReadFrame, InAwait, what, budgets, seen
<1>2. CASE End(r, "exhausted")
  BY <1>1, <1>2, EndPreserves DEF Ended, Status
<1>3. CASE UNCHANGED pc /\ \E n \in 1..MaxFrame :
                ~TooLarge(r, n) /\ body' = [body EXCEPT ![r] = @ + n]
  <2>1. body' \in [Request -> 0..MaxBody]
    BY <1>3, RequestPipelineAssumption DEF PipelineInv, TypeOK, TooLarge
  <2>2. TypeOK'
    BY <1>1, <1>3, <2>1 DEF PipelineInv, TypeOK
  <2>3. LayersPassed'
    BY <1>1, <1>3 DEF PipelineInv, LayersPassed
  <2>4. AdmissionAccount'
    BY <1>1, <1>3 DEF PipelineInv, AdmissionAccount, Reading, Beyond
  <2>5. QuotaAccount'
    BY <1>1, <1>3 DEF PipelineInv, QuotaAccount, Consumers, Carried, QuotaKey
  <2> QED
    BY <2>2, <2>3, <2>4, <2>5 DEF PipelineInv
<1> QED
  BY <1>2, <1>3 DEF ReadFrame

(***************************************************************************)
(* The four ways a request can end in CLN, in its service or because its   *)
(* client leaves are all ends of a waiting request.                        *)
(***************************************************************************)
LEMMA EndingsPreserve ==
    ASSUME PipelineInv, NEW r \in Request,
           BodyFails(r) \/ RuneRefused(r) \/ Serve(r) \/ Cancel(r)
    PROVE  PipelineInv'
<1>1. /\ pc[r] \in InAwait
      /\ UNCHANGED <<cert, path, asked, accepted>>
      /\ \E l \in Ended : End(r, l)
  BY DEF BodyFails, RuneRefused, Serve, Cancel, InAwait, Ended, Status, what, seen
<1>2. \/ UNCHANGED <<tokens, spent>>
      \/ \E k : Asks(r, k) /\ Allows(k) /\ Spend(k)
  <2>1. CASE Cancel(r)
    <3>1. CASE UNCHANGED budgets
      BY <3>1 DEF budgets
    <3>2. CASE pc[r] = "quota" /\ Allows(QuotaKey(r)) /\ Spend(QuotaKey(r))
      BY <3>2 DEF Asks
    <3>3. CASE /\ pc[r] = "admission" /\ Allows(<<"admit", cert[r]>>)
               /\ Spend(<<"admit", cert[r]>>)
      BY <3>3 DEF Asks
    <3> QED
      BY <2>1, <3>1, <3>2, <3>3 DEF Cancel, budgets
  <2>2. CASE BodyFails(r) \/ RuneRefused(r) \/ Serve(r)
    BY <2>2 DEF BodyFails, RuneRefused, Serve, budgets
  <2> QED
    BY <2>1, <2>2
<1>3. \/ UNCHANGED executed
      \/ pc[r] = "service" /\ executed' = executed \cup {r}
  BY DEF BodyFails, RuneRefused, Serve, Cancel, seen
<1> QED
  BY <1>1, <1>2, <1>3, EndPreserves

(***************************************************************************)
(* A step that changes nothing keeps the invariant.                        *)
(***************************************************************************)
LEMMA StutterPreserves == PipelineInv /\ UNCHANGED vars => PipelineInv'
<1> SUFFICES ASSUME PipelineInv, UNCHANGED vars PROVE PipelineInv'
  OBVIOUS
<1>1. UNCHANGED <<cert, path, pc, body, tokens, spent, asked, accepted, executed>>
  BY DEF vars, what, budgets, seen
<1>2. TypeOK'
  BY <1>1 DEF PipelineInv, TypeOK
<1>3. LayersPassed'
  BY <1>1 DEF PipelineInv, LayersPassed
<1>4. AdmissionAccount'
  BY <1>1 DEF PipelineInv, AdmissionAccount, Reading, Beyond
<1>5. QuotaAccount'
  BY <1>1 DEF PipelineInv, QuotaAccount, Consumers, Carried, QuotaKey
<1> QED
  BY <1>2, <1>3, <1>4, <1>5 DEF PipelineInv

(***************************************************************************)
(* PipelineInv holds in every state the server can reach.                  *)
(***************************************************************************)
THEOREM Invariance == Spec => []PipelineInv
<1>1. PipelineInv /\ [Next]_vars => PipelineInv'
  <2> SUFFICES ASSUME PipelineInv, [Next]_vars PROVE PipelineInv'
    OBVIOUS
  <2>1. ASSUME NEW r \in Request, Server(r) PROVE PipelineInv'
    BY <2>1, AdmitPreserves, CheckQuotaPreserves DEF Server
  <2>2. ASSUME NEW r \in Request, Cln(r) PROVE PipelineInv'
    BY <2>2, RuneAcceptedPreserves, EndingsPreserve DEF Cln
  <2>3. ASSUME NEW r \in Request, Peer(r) PROVE PipelineInv'
    BY <2>3, IdentifyPreserves, ReadFramePreserves, EndOfBodyPreserves, EndingsPreserve
    DEF Peer
  <2>4. ASSUME NEW k \in Key, Refresh(k) PROVE PipelineInv'
    BY <2>4, RefreshPreserves
  <2>5. CASE UNCHANGED vars
    BY <2>5, StutterPreserves
  <2> QED
    BY <2>1, <2>2, <2>3, <2>4, <2>5 DEF Next
<1> QED
  BY InitInv, <1>1, PTL DEF Spec

(***************************************************************************)
(* Budgets are never overdrawn, and no request keeps more of its body in   *)
(* memory than max_request_body_bytes.                                     *)
(***************************************************************************)
THEOREM TypeCorrect == Spec => []TypeOK
<1>1. PipelineInv => TypeOK
  BY DEF PipelineInv
<1> QED
  BY Invariance, <1>1, PTL

(***************************************************************************)
(* Availability invariant 5, for any number of requests and certificates:  *)
(* CLN is asked to check no more runes of a certificate than its admission *)
(* budget has allowed.                                                     *)
(***************************************************************************)
THEOREM RunesAskedWithinBudget == Spec => []AskedWithinBudget
<1>1. PipelineInv => AskedWithinBudget
  <2> SUFFICES ASSUME PipelineInv, NEW c \in Client
               PROVE  asked[c] <= spent[<<"admit", c>>]
    BY DEF AskedWithinBudget
  <2>1. Cardinality(Reading(c)) \in Nat
    BY FS_Subset, FS_CardinalityType, RequestPipelineAssumption DEF Reading
  <2>2. spent[<<"admit", c>>] \in Int
    BY Keys, RequestPipelineAssumption DEF PipelineInv, TypeOK
  <2> QED
    BY <2>1, <2>2 DEF PipelineInv, TypeOK, AdmissionAccount
<1> QED
  BY Invariance, <1>1, PTL

(***************************************************************************)
(* The comment in server.rs, for any number of requests: a method's budget *)
(* has allowed at most one call per request whose rune CLN accepted.       *)
(***************************************************************************)
THEOREM QuotaNeedsAuthentication == Spec => []OnlyAuthenticatedConsume
<1>1. PipelineInv => OnlyAuthenticatedConsume
  <2> SUFFICES ASSUME PipelineInv, NEW m \in Method, NEW c \in Client
               PROVE  spent[<<m, c>>] <=
                        Cardinality({r \in accepted :
                                        <<MethodOf[path[r]], cert[r]>> = <<m, c>>})
    BY DEF OnlyAuthenticatedConsume
  <2> DEFINE A == {r \in accepted : <<MethodOf[path[r]], cert[r]>> = <<m, c>>}
  <2>1. Consumers(<<m, c>>) \subseteq A /\ A \subseteq Request
    BY DEF PipelineInv, TypeOK, Consumers, QuotaKey
  <2>2. IsFiniteSet(A)
    BY <2>1, FS_Subset, RequestPipelineAssumption
  <2>3. /\ Cardinality(Consumers(<<m, c>>)) <= Cardinality(A)
        /\ Cardinality(Consumers(<<m, c>>)) \in Nat /\ Cardinality(A) \in Nat
    BY <2>1, <2>2, FS_Subset, FS_CardinalityType
  <2>4. spent[<<m, c>>] <= Cardinality(Consumers(<<m, c>>))
    BY DEF PipelineInv, QuotaAccount
  <2>5. spent[<<m, c>>] \in Int
    BY Keys, RequestPipelineAssumption DEF PipelineInv, TypeOK
  <2> QED
    BY <2>3, <2>4, <2>5
<1> QED
  BY Invariance, <1>1, PTL

(***************************************************************************)
(* One budget for all ways to create an invoice and one for all ways to    *)
(* pay, for any number of requests: what the service carried out by unary  *)
(* call or by stream, that budget allowed.                                 *)
(***************************************************************************)
THEOREM EffectsStayWithinQuota == Spec => []EffectsWithinQuota
<1>1. PipelineInv => EffectsWithinQuota
  <2> SUFFICES ASSUME PipelineInv, NEW m \in Method \cap DOMAIN Together, NEW c \in Client
               PROVE  Cardinality({r \in executed : path[r] \in Together[m] /\ cert[r] = c})
                        <= spent[<<m, c>>]
    BY DEF EffectsWithinQuota
  <2> DEFINE E == {r \in executed : path[r] \in Together[m] /\ cert[r] = c}
  <2>1. m \in Method /\ \A p \in Together[m] : MethodOf[p] = m
    BY DEF Together, Method, MethodOf, Known
  <2>2. E \subseteq Carried(<<m, c>>) /\ Carried(<<m, c>>) \subseteq Request
    BY <2>1 DEF PipelineInv, TypeOK, Carried, QuotaKey
  <2>3. IsFiniteSet(Carried(<<m, c>>))
    BY <2>2, FS_Subset, RequestPipelineAssumption
  <2>4. /\ Cardinality(E) <= Cardinality(Carried(<<m, c>>))
        /\ Cardinality(E) \in Nat /\ Cardinality(Carried(<<m, c>>)) \in Nat
    BY <2>2, <2>3, FS_Subset, FS_CardinalityType
  <2>5. Cardinality(Carried(<<m, c>>)) <= spent[<<m, c>>]
    BY <2>1 DEF PipelineInv, QuotaAccount
  <2>6. spent[<<m, c>>] \in Int
    BY <2>1, Keys, RequestPipelineAssumption DEF PipelineInv, TypeOK
  <2> QED
    BY <2>4, <2>5, <2>6
<1> QED
  BY Invariance, <1>1, PTL

-----------------------------------------------------------------------------
(* RateLimiter.                                                            *)

\* What a bucket may be.
Bucket == [tokens : -1..Limit, age : 0..2 * Window]

\* The part of LimiterInv that is about when a budget has room again.
SteadyInv ==
    /\ LimiterTypeOK
    /\ BucketAccount
    /\ CounterAccount

(***************************************************************************)
(* The tokens an age is worth are a number.                                *)
(***************************************************************************)
LEMMA EarnedType ==
    ASSUME NEW a \in Nat
    PROVE  Earned(a) \in Nat
<1>1. a * Limit \in Nat
  BY RateLimiterAssumption
<1> QED
  BY <1>1, RateLimiterAssumption DEF Earned

(***************************************************************************)
(* A refilled bucket exists and holds no more than the limit; it is empty  *)
(* only if it was, and for less than a window.                             *)
(***************************************************************************)
LEMMA RefillBucket ==
    ASSUME NEW b \in Bucket
    PROVE  /\ Refill(b) \in Bucket
           /\ Refill(b).tokens >= 0
           /\ b.tokens > 0 => Refill(b).tokens > 0
           /\ b.age >= Window => Refill(b).tokens > 0
           /\ Refill(b).tokens = 0 => Refill(b) = b
<1>1. FullBucket \in Bucket /\ FullBucket.tokens \in Nat \ {0}
  BY RateLimiterAssumption DEF FullBucket, Bucket
<1>2. CASE b.tokens = -1 \/ b.age >= Window
  <2>1. Refill(b) = FullBucket
    BY <1>2 DEF Refill
  <2>2. FullBucket.tokens > 0 /\ FullBucket.tokens >= 0 /\ FullBucket.tokens # 0
    BY <1>1
  <2> QED
    BY <1>1, <2>1, <2>2
<1>3. CASE b.tokens # -1 /\ ~(b.age >= Window)
  <2>1. Earned(b.age) \in Nat /\ b.tokens \in Nat /\ b.tokens <= Limit
    <3>1. b.age \in Nat /\ b.tokens \in Nat /\ b.tokens <= Limit
      BY <1>3, RateLimiterAssumption DEF Bucket
    <3> QED
      BY <3>1, EarnedType
  <2>2. CASE b.tokens < Limit /\ Earned(b.age) > 0
    <3>1. Refill(b) = [tokens |-> Least(b.tokens + Earned(b.age), Limit), age |-> 0]
      BY <1>3, <2>2 DEF Refill
    <3>2. /\ Least(b.tokens + Earned(b.age), Limit) \in 0..Limit
          /\ Least(b.tokens + Earned(b.age), Limit) > 0
      BY <2>1, <2>2, RateLimiterAssumption DEF Least
    <3>3. 0 \in 0..2 * Window
      BY RateLimiterAssumption
    <3> QED
      BY <1>3, <3>1, <3>2, <3>3, RateLimiterAssumption DEF Bucket
  <2>3. CASE ~(b.tokens < Limit /\ Earned(b.age) > 0)
    <3>1. Refill(b) = b
      BY <1>3, <2>3 DEF Refill
    <3> QED
      BY <1>3, <2>1, <3>1
  <2> QED
    BY <2>2, <2>3
<1> QED
  BY <1>2, <1>3

(***************************************************************************)
(* A call leaves a bucket that exists; it is empty only if the call took   *)
(* the last token, or was refused and changed nothing within a window of   *)
(* the last refill.                                                        *)
(***************************************************************************)
LEMMA SpendBucket ==
    ASSUME NEW b \in Bucket
    PROVE  /\ SpendToken(Refill(b)) \in Bucket
           /\ SpendToken(Refill(b)).tokens >= 0
           /\ ~TokenLeft(b) => /\ SpendToken(Refill(b)) = b
                            /\ b.tokens = 0 /\ b.age < Window
<1> DEFINE c == Refill(b)
<1>1. /\ c \in Bucket /\ c.tokens >= 0
      /\ b.tokens > 0 => c.tokens > 0
      /\ b.age >= Window => c.tokens > 0
      /\ c.tokens = 0 => c = b
  BY RefillBucket
<1>2. TokenLeft(b) <=> c.tokens > 0
  BY DEF TokenLeft
<1> HIDE DEF c
<1>3. SpendToken(c) \in Bucket /\ SpendToken(c).tokens >= 0
  BY <1>1, RateLimiterAssumption DEF SpendToken, Bucket
<1>4. ASSUME ~(c.tokens > 0) PROVE SpendToken(c) = b /\ b.tokens = 0 /\ b.age < Window
  BY <1>1, <1>4, RateLimiterAssumption DEF SpendToken, Bucket
<1> QED
  BY <1>2, <1>3, <1>4 DEF c

(***************************************************************************)
(* What Redis counts.                                                      *)
(***************************************************************************)
LEMMA ScriptCounter ==
    ASSUME NEW k \in Budget, counter[k] \in [count : 0..Limit + 1, ttl : 0..Window]
    PROVE  /\ Script(k) \in [count : 0..Limit + 1, ttl : 0..Window]
           /\ counter[k].count = 0 => Script(k).count = 1 /\ Script(k).ttl = Window
           /\ counter[k].count > 0 => Script(k).ttl = counter[k].ttl
  BY RateLimiterAssumption DEF Script, Counted, Least

LEMMA LimiterInitInv == LimiterInit => SteadyInv
  BY RateLimiterAssumption
  DEF LimiterInit, SteadyInv, LimiterTypeOK, BucketAccount, CounterAccount,
      NoBucket, NoCounter

(***************************************************************************)
(* What a call leaves of the observations of its key and of the others.    *)
(***************************************************************************)
LEMMA ObserveKey ==
    ASSUME LimiterTypeOK, NEW k \in Budget, NEW by \in Store, NEW allow \in BOOLEAN,
           Observe(k, by, allow)
    PROVE  /\ allowed' \in [Budget -> [Store -> [Back -> Nat]]]
           /\ quiet' \in [Budget -> 0..2 * Window]
           /\ allow => quiet'[k] = 0
           /\ ~allow => quiet'[k] = quiet[k]
           /\ \A q \in Budget \ {k} : quiet'[q] = quiet[q]
           /\ \A q \in Budget, st \in Store, n \in Back :
                 allowed'[q][st][n] =
                    IF allow /\ q = k /\ st = by THEN allowed[q][st][n] + 1
                    ELSE allowed[q][st][n]
<1> DEFINE more == [n \in Back |-> allowed[k][by][n] + 1]
<1>1. allowed[k] \in [Store -> [Back -> Nat]] /\ more \in [Back -> Nat]
  BY DEF LimiterTypeOK
<1>2. allow => allowed' = [allowed EXCEPT ![k] = [allowed[k] EXCEPT ![by] = more]]
  BY DEF Observe
<1>3. [allowed[k] EXCEPT ![by] = more] \in [Store -> [Back -> Nat]]
  BY <1>1
<1>4. allowed' \in [Budget -> [Store -> [Back -> Nat]]]
  BY <1>2, <1>3 DEF LimiterTypeOK, Observe
<1>5. \A q \in Budget, st \in Store, n \in Back :
         allowed'[q][st][n] = IF allow /\ q = k /\ st = by THEN allowed[q][st][n] + 1
                              ELSE allowed[q][st][n]
  BY <1>1, <1>2 DEF LimiterTypeOK, Observe
<1>6. /\ quiet' \in [Budget -> 0..2 * Window]
      /\ allow => quiet'[k] = 0
      /\ ~allow => quiet'[k] = quiet[k]
      /\ \A q \in Budget \ {k} : quiet'[q] = quiet[q]
  BY RateLimiterAssumption DEF LimiterTypeOK, Observe
<1> QED
  BY <1>4, <1>5, <1>6

LEMMA CheckRedisPreserves ==
    ASSUME SteadyInv, NEW k \in Budget, CheckRedis(k)
    PROVE  SteadyInv'
<1>1. LimiterTypeOK /\ counter[k] \in [count : 0..Limit + 1, ttl : 0..Window]
  BY DEF SteadyInv, LimiterTypeOK
<1>2. /\ Script(k) \in [count : 0..Limit + 1, ttl : 0..Window]
      /\ counter[k].count = 0 => Script(k).count = 1 /\ Script(k).ttl = Window
      /\ counter[k].count > 0 => Script(k).ttl = counter[k].ttl
  BY <1>1, ScriptCounter
<1>3. /\ allowed' \in [Budget -> [Store -> [Back -> Nat]]]
      /\ quiet' \in [Budget -> 0..2 * Window]
      /\ Script(k).count <= Limit => quiet'[k] = 0
      /\ quiet'[k] \in {0, quiet[k]}
      /\ \A q \in Budget \ {k} : quiet'[q] = quiet[q]
  <2>1. Observe(k, "redis", Script(k).count <= Limit) /\ "redis" \in Store
    BY DEF CheckRedis, Store
  <2>2. (Script(k).count <= Limit) \in BOOLEAN
    OBVIOUS
  <2> QED
    BY <1>1, <2>1, <2>2, ObserveKey
<1>4. /\ counter' = [counter EXCEPT ![k] = Script(k)]
      /\ burst' = [burst EXCEPT ![k] = @ + 1] /\ burst[k] < MaxBurst
      /\ UNCHANGED <<hasRedis, bucket, failed>>
  BY DEF CheckRedis, Call
<1>5. LimiterTypeOK'
  <2>1. burst' \in [Budget -> 0..MaxBurst]
    <3>1. burst[k] + 1 \in 0..MaxBurst
      <4>1. burst[k] \in 0..MaxBurst
        BY <1>1 DEF LimiterTypeOK
      <4> QED
        BY <1>4, <4>1, RateLimiterAssumption
    <3> QED
      BY <1>1, <1>4, <3>1 DEF LimiterTypeOK
  <2> QED
    BY <1>1, <1>2, <1>3, <1>4, <2>1 DEF LimiterTypeOK
<1>6. BucketAccount'
  <2> SUFFICES ASSUME NEW q \in Budget, bucket[q].tokens = 0
               PROVE  bucket[q].age >= quiet'[q]
    BY <1>4 DEF BucketAccount
  <2>1. bucket[q].age >= quiet[q] /\ bucket[q].age \in Nat
    BY <1>1 DEF SteadyInv, BucketAccount, LimiterTypeOK
  <2>2. quiet'[q] = quiet[q] \/ quiet'[q] = 0
    BY <1>3
  <2> QED
    BY <2>1, <2>2
<1>7. CounterAccount'
  <2> SUFFICES ASSUME NEW q \in Budget, counter'[q].count > 0
               PROVE  /\ counter'[q].ttl >= 1
                      /\ failed[q] = 0 => quiet'[q] < 2 * Window - counter'[q].ttl
    BY <1>4 DEF CounterAccount
  <2>1. counter[q].count > 0 =>
           /\ counter[q].ttl >= 1
           /\ failed[q] = 0 => quiet[q] < 2 * Window - counter[q].ttl
    BY DEF SteadyInv, CounterAccount
  <2>2. quiet[q] \in Nat /\ counter[q].ttl \in 0..Window /\ counter[q].count \in Nat
    <3>1. /\ quiet[q] \in 0..2 * Window
          /\ counter[q] \in [count : 0..Limit + 1, ttl : 0..Window]
      BY <1>1 DEF LimiterTypeOK
    <3> QED
      BY <3>1
  <2>3. CASE q = k
    <3>1. counter'[q] = Script(k)
      BY <1>1, <1>4, <2>3 DEF LimiterTypeOK
    <3>2. CASE counter[k].count = 0
      BY <1>2, <1>3, <2>3, <3>1, <3>2, RateLimiterAssumption
    <3>3. CASE counter[k].count > 0
      BY <1>2, <1>3, <2>1, <2>2, <2>3, <3>1, <3>3, RateLimiterAssumption
    <3> QED
      BY <2>2, <2>3, <3>2, <3>3
  <2>4. CASE q # k
    BY <1>1, <1>3, <1>4, <2>1, <2>4 DEF LimiterTypeOK
  <2> QED
    BY <2>3, <2>4
<1> QED
  BY <1>5, <1>6, <1>7 DEF SteadyInv

LEMMA RedisFailsPreserves ==
    ASSUME SteadyInv, NEW k \in Budget, RedisFails(k)
    PROVE  SteadyInv'
<1>1. LimiterTypeOK /\ counter[k] \in [count : 0..Limit + 1, ttl : 0..Window]
  BY DEF SteadyInv, LimiterTypeOK
<1>2. /\ Script(k) \in [count : 0..Limit + 1, ttl : 0..Window]
      /\ counter[k].count = 0 => Script(k).count = 1 /\ Script(k).ttl = Window
      /\ counter[k].count > 0 => Script(k).ttl = counter[k].ttl
  BY <1>1, ScriptCounter
<1>3. /\ counter' \in {counter, [counter EXCEPT ![k] = Script(k)]}
      /\ burst' = [burst EXCEPT ![k] = @ + 1] /\ burst[k] < MaxBurst
      /\ failed' = [failed EXCEPT ![k] = @ + 1] /\ failed[k] < MaxFailed
      /\ UNCHANGED <<hasRedis, bucket, allowed, quiet>>
  BY DEF RedisFails, Call
<1>4. LimiterTypeOK'
  <2>1. burst' \in [Budget -> 0..MaxBurst] /\ failed' \in [Budget -> 0..MaxFailed]
    <3>1. burst[k] \in 0..MaxBurst /\ failed[k] \in 0..MaxFailed
      BY <1>1 DEF LimiterTypeOK
    <3>2. burst[k] + 1 \in 0..MaxBurst /\ failed[k] + 1 \in 0..MaxFailed
      BY <1>3, <3>1, RateLimiterAssumption
    <3> QED
      BY <1>1, <1>3, <3>2 DEF LimiterTypeOK
  <2>2. counter' \in [Budget -> [count : 0..Limit + 1, ttl : 0..Window]]
    BY <1>1, <1>2, <1>3 DEF LimiterTypeOK
  <2> QED
    BY <1>1, <1>3, <2>1, <2>2 DEF LimiterTypeOK
<1>5. BucketAccount'
  BY <1>3 DEF SteadyInv, BucketAccount
<1>6. CounterAccount'
  <2> SUFFICES ASSUME NEW q \in Budget, counter'[q].count > 0
               PROVE  /\ counter'[q].ttl >= 1
                      /\ failed'[q] = 0 => quiet[q] < 2 * Window - counter'[q].ttl
    BY <1>3 DEF CounterAccount
  <2>1. counter[q].count > 0 =>
           /\ counter[q].ttl >= 1
           /\ failed[q] = 0 => quiet[q] < 2 * Window - counter[q].ttl
    BY DEF SteadyInv, CounterAccount
  <2>2. CASE q = k
    <3>1. counter'[q] \in {counter[k], Script(k)} /\ failed'[q] # 0
      BY <1>1, <1>3, <2>2 DEF LimiterTypeOK
    <3>2. counter'[q].ttl >= 1
      BY <1>1, <1>2, <2>1, <2>2, <3>1, RateLimiterAssumption
    <3> QED
      BY <3>1, <3>2
  <2>3. CASE q # k
    BY <1>1, <1>3, <2>1, <2>3 DEF LimiterTypeOK
  <2> QED
    BY <2>2, <2>3
<1> QED
  BY <1>4, <1>5, <1>6 DEF SteadyInv

LEMMA CheckInMemoryPreserves ==
    ASSUME SteadyInv, NEW k \in Budget, CheckInMemory(k)
    PROVE  SteadyInv'
<1>1. LimiterTypeOK /\ bucket[k] \in Bucket
  BY DEF SteadyInv, LimiterTypeOK, Bucket
<1> DEFINE b == SpendToken(Refill(bucket[k]))
<1>2. /\ b \in Bucket /\ b.tokens >= 0
      /\ ~TokenLeft(bucket[k]) =>
            b = bucket[k] /\ bucket[k].tokens = 0 /\ bucket[k].age < Window
  BY <1>1, SpendBucket
<1>3. TokenLeft(bucket[k]) \in BOOLEAN
  BY DEF TokenLeft
<1>4. /\ allowed' \in [Budget -> [Store -> [Back -> Nat]]]
      /\ quiet' \in [Budget -> 0..2 * Window]
      /\ TokenLeft(bucket[k]) => quiet'[k] = 0
      /\ ~TokenLeft(bucket[k]) => quiet'[k] = quiet[k]
      /\ \A q \in Budget \ {k} : quiet'[q] = quiet[q]
  <2>1. Observe(k, "memory", TokenLeft(bucket[k])) /\ "memory" \in Store
    BY DEF CheckInMemory, Store
  <2> QED
    BY <1>1, <1>3, <2>1, ObserveKey
<1>5. /\ bucket' = [bucket EXCEPT ![k] = b]
      /\ UNCHANGED <<hasRedis, counter>>
  BY DEF CheckInMemory
<1>6. /\ failed' \in [Budget -> 0..MaxFailed] /\ burst' \in [Budget -> 0..MaxBurst]
      /\ \A q \in Budget \ {k} : failed'[q] = failed[q]
  <2> failed[k] \in 0..MaxFailed /\ burst[k] \in 0..MaxBurst
    BY <1>1 DEF LimiterTypeOK
  <2>1. failed[k] > 0 => failed[k] - 1 \in 0..MaxFailed
    BY RateLimiterAssumption
  <2>2. burst[k] < MaxBurst => burst[k] + 1 \in 0..MaxBurst
    BY RateLimiterAssumption
  <2>3. \/ failed[k] > 0 /\ failed' = [failed EXCEPT ![k] = @ - 1] /\ burst' = burst
        \/ /\ burst[k] < MaxBurst /\ burst' = [burst EXCEPT ![k] = @ + 1]
           /\ failed' = failed
    BY DEF CheckInMemory, Call
  <2> QED
    BY <1>1, <2>1, <2>2, <2>3 DEF LimiterTypeOK
<1> HIDE DEF b
<1>7. LimiterTypeOK'
  BY <1>1, <1>2, <1>4, <1>5, <1>6 DEF LimiterTypeOK, Bucket
<1>8. bucket'[k] = b
  BY <1>1, <1>5 DEF LimiterTypeOK
<1>9. BucketAccount'
  <2> SUFFICES ASSUME NEW q \in Budget, bucket'[q].tokens = 0
               PROVE  bucket'[q].age >= quiet'[q]
    BY DEF BucketAccount
  <2>1. bucket[q].tokens = 0 => bucket[q].age >= quiet[q]
    BY DEF SteadyInv, BucketAccount
  <2>2. CASE q = k
    <3>1. CASE TokenLeft(bucket[k])
      BY <1>2, <1>4, <1>8, <2>2, <3>1, RateLimiterAssumption DEF Bucket
    <3>2. CASE ~TokenLeft(bucket[k])
      BY <1>2, <1>4, <1>8, <2>1, <2>2, <3>2
    <3> QED
      BY <3>1, <3>2
  <2>3. CASE q # k
    BY <1>1, <1>4, <1>5, <2>1, <2>3 DEF LimiterTypeOK
  <2> QED
    BY <2>2, <2>3
<1>10. quiet'[k] < Window
  <2>1. CASE TokenLeft(bucket[k])
    BY <1>4, <2>1, RateLimiterAssumption
  <2>2. CASE ~TokenLeft(bucket[k])
    <3>1. bucket[k].age >= quiet[k] /\ bucket[k].age < Window
      BY <1>2, <2>2 DEF SteadyInv, BucketAccount
    <3>2. bucket[k].age \in Nat /\ quiet[k] \in Nat /\ quiet'[k] = quiet[k]
      BY <1>1, <1>4, <2>2 DEF LimiterTypeOK
    <3> QED
      BY <3>1, <3>2, RateLimiterAssumption
  <2> QED
    BY <2>1, <2>2
<1>11. CounterAccount'
  <2> SUFFICES ASSUME NEW q \in Budget, counter[q].count > 0
               PROVE  /\ counter[q].ttl >= 1
                      /\ failed'[q] = 0 => quiet'[q] < 2 * Window - counter[q].ttl
    BY <1>5 DEF CounterAccount
  <2>1. /\ counter[q].ttl >= 1
        /\ failed[q] = 0 => quiet[q] < 2 * Window - counter[q].ttl
    BY DEF SteadyInv, CounterAccount
  <2>2. CASE q = k
    <3>1. counter[k].ttl \in 0..Window /\ quiet'[k] \in Nat
      BY <1>1, <1>4 DEF LimiterTypeOK
    <3>2. quiet'[k] < 2 * Window - counter[k].ttl
      BY <1>10, <3>1, RateLimiterAssumption
    <3> QED
      BY <2>1, <2>2, <3>2
  <2>3. CASE q # k
    BY <1>4, <1>6, <2>1, <2>3
  <2> QED
    BY <2>2, <2>3
<1> QED
  BY <1>7, <1>9, <1>11 DEF SteadyInv

LEMMA CleanupPreserves ==
    ASSUME SteadyInv, Cleanup
    PROVE  SteadyInv'
<1>1. LimiterTypeOK
  BY DEF SteadyInv
<1>2. /\ bucket' = [k \in Budget |-> IF Stale(bucket[k]) THEN NoBucket ELSE bucket[k]]
      /\ UNCHANGED <<hasRedis, counter, failed, burst, allowed, quiet>>
  BY DEF Cleanup
<1>3. NoBucket \in Bucket /\ NoBucket.tokens # 0
  BY RateLimiterAssumption DEF NoBucket, Bucket
<1>4. \A k \in Budget : bucket'[k] \in {NoBucket, bucket[k]}
  BY <1>2
<1>5. LimiterTypeOK'
  BY <1>1, <1>2, <1>3 DEF LimiterTypeOK, Bucket
<1>6. BucketAccount'
  BY <1>2, <1>3, <1>4 DEF SteadyInv, BucketAccount
<1>7. CounterAccount'
  BY <1>2 DEF SteadyInv, CounterAccount
<1> QED
  BY <1>5, <1>6, <1>7 DEF SteadyInv

(***************************************************************************)
(* Ages grow together.                                                     *)
(***************************************************************************)
LEMMA OlderAges ==
    ASSUME NEW a \in 0..2 * Window, NEW b \in 0..2 * Window
    PROVE  /\ Older(a) \in 0..2 * Window /\ Older(a) <= a + 1
           /\ a >= b => Older(a) >= Older(b)
  BY RateLimiterAssumption DEF Older, Least

LEMMA TickPreserves ==
    ASSUME SteadyInv, Tick
    PROVE  SteadyInv'
<1>1. LimiterTypeOK
  BY DEF SteadyInv
<1>2. /\ bucket' = [k \in Budget |-> Aged(bucket[k])]
      /\ counter' = [k \in Budget |-> Expired(counter[k])]
      /\ burst' = [k \in Budget |-> 0]
      /\ allowed' = [k \in Budget |-> [by \in Store |->
            [n \in Back |-> IF n = 0 THEN 0 ELSE allowed[k][by][n - 1]]]]
      /\ quiet' = [k \in Budget |-> Older(quiet[k])]
      /\ UNCHANGED <<hasRedis, failed>>
  BY DEF Tick
<1>3. ASSUME NEW k \in Budget
      PROVE  /\ bucket[k] \in Bucket /\ quiet[k] \in 0..2 * Window
             /\ counter[k] \in [count : 0..Limit + 1, ttl : 0..Window]
  BY <1>1 DEF LimiterTypeOK, Bucket
<1>4. ASSUME NEW k \in Budget
      PROVE  /\ Aged(bucket[k]) \in Bucket
             /\ Aged(bucket[k]).tokens = bucket[k].tokens
             /\ bucket[k].tokens = 0 =>
                   Aged(bucket[k]).age = Older(bucket[k].age)
  <2>1. bucket[k].age \in 0..2 * Window
    BY <1>3 DEF Bucket
  <2>2. Older(bucket[k].age) \in 0..2 * Window
    BY <2>1, OlderAges
  <2> QED
    BY <1>3, <2>2 DEF Aged, Bucket
<1>5. ASSUME NEW k \in Budget
      PROVE  /\ Expired(counter[k]) \in [count : 0..Limit + 1, ttl : 0..Window]
             /\ Expired(counter[k]).count > 0 =>
                   /\ counter[k].count > 0
                   /\ Expired(counter[k]).ttl >= 1
                   /\ Expired(counter[k]).ttl = counter[k].ttl - 1
  <2>1. counter[k].ttl \in 0..Window /\ counter[k].count \in 0..Limit + 1
    BY <1>3
  <2>2. CASE counter[k].ttl <= 1
    <3>1. Expired(counter[k]) = NoCounter
      BY <2>2 DEF Expired
    <3> QED
      BY <3>1, RateLimiterAssumption DEF NoCounter
  <2>3. CASE ~(counter[k].ttl <= 1)
    <3>1. Expired(counter[k]) = [counter[k] EXCEPT !.ttl = counter[k].ttl - 1]
      BY <2>3 DEF Expired
    <3>2. counter[k].ttl - 1 \in 0..Window /\ counter[k].ttl - 1 >= 1
      BY <2>1, <2>3, RateLimiterAssumption
    <3> QED
      BY <1>3, <3>1, <3>2
  <2> QED
    BY <2>2, <2>3
<1>6. LimiterTypeOK'
  <2>1. bucket' \in [Budget -> [tokens : -1..Limit, age : 0..2 * Window]]
    BY <1>2, <1>4 DEF Bucket
  <2>2. counter' \in [Budget -> [count : 0..Limit + 1, ttl : 0..Window]]
    BY <1>2, <1>5
  <2>3. quiet' \in [Budget -> 0..2 * Window]
    BY <1>2, <1>3, OlderAges
  <2>4. allowed' \in [Budget -> [Store -> [Back -> Nat]]]
    <3>1. ASSUME NEW k \in Budget, NEW by \in Store, NEW n \in Back
          PROVE  (IF n = 0 THEN 0 ELSE allowed[k][by][n - 1]) \in Nat
      <4>1. allowed[k][by] \in [Back -> Nat]
        BY <1>1 DEF LimiterTypeOK
      <4>2. n # 0 => n - 1 \in Back
        BY RateLimiterAssumption DEF Back
      <4> QED
        BY <4>1, <4>2
    <3> QED
      BY <1>2, <3>1
  <2>5. burst' \in [Budget -> 0..MaxBurst]
    BY <1>2, RateLimiterAssumption
  <2> QED
    BY <1>1, <1>2, <2>1, <2>2, <2>3, <2>4, <2>5 DEF LimiterTypeOK
<1>7. BucketAccount'
  <2> SUFFICES ASSUME NEW k \in Budget, Aged(bucket[k]).tokens = 0
               PROVE  Aged(bucket[k]).age >= Older(quiet[k])
    BY <1>2 DEF BucketAccount
  <2>1. bucket[k].tokens = 0 /\ Aged(bucket[k]).age = Older(bucket[k].age)
    BY <1>4
  <2>2. bucket[k].age >= quiet[k] /\ bucket[k].age \in 0..2 * Window
    BY <1>3, <2>1 DEF SteadyInv, BucketAccount, Bucket
  <2> QED
    BY <1>3, <2>1, <2>2, OlderAges
<1>8. CounterAccount'
  <2> SUFFICES ASSUME NEW k \in Budget, Expired(counter[k]).count > 0
               PROVE  /\ Expired(counter[k]).ttl >= 1
                      /\ failed[k] = 0 =>
                            Older(quiet[k]) < 2 * Window - Expired(counter[k]).ttl
    BY <1>2 DEF CounterAccount
  <2>1. /\ counter[k].count > 0 /\ Expired(counter[k]).ttl >= 1
        /\ Expired(counter[k]).ttl = counter[k].ttl - 1
    BY <1>5
  <2>2. failed[k] = 0 => quiet[k] < 2 * Window - counter[k].ttl
    BY <2>1 DEF SteadyInv, CounterAccount
  <2>3. Older(quiet[k]) <= quiet[k] + 1 /\ Older(quiet[k]) \in 0..2 * Window
    BY <1>3, OlderAges
  <2>4. quiet[k] \in 0..2 * Window /\ counter[k].ttl \in 0..Window
    BY <1>3
  <2> QED
    BY <2>1, <2>2, <2>3, <2>4, RateLimiterAssumption
<1> QED
  BY <1>6, <1>7, <1>8 DEF SteadyInv

(***************************************************************************)
(* Products, for the provers: they do not multiply out what they cannot    *)
(* name.                                                                   *)
(***************************************************************************)
LEMMA Products ==
    ASSUME NEW a \in Int, NEW b \in Int, NEW c \in Nat
    PROVE  /\ a * c \in Int
           /\ (a + b) * c = a * c + b * c
           /\ (a + 1) * c = a * c + c /\ (a - 1) * c = a * c - c
           /\ a <= b => a * c <= b * c
           /\ 0 <= a => 0 <= a * c
  OBVIOUS

(***************************************************************************)
(* What an age earns: what it is worth, less than a token short.           *)
(***************************************************************************)
LEMMA EarnedWorth ==
    ASSUME NEW a \in Nat
    PROVE  /\ Earned(a) * Window <= a * Limit
           /\ a * Limit < Earned(a) * Window + Window
<1> DEFINE p == a * Limit
<1>1. p \in Nat /\ Window \in Nat \ {0}
  BY RateLimiterAssumption
<1>2. Earned(a) = p \div Window
  BY DEF Earned
<1> HIDE DEF p
<1>3. (p \div Window) * Window <= p /\ p < (p \div Window) * Window + Window
  BY <1>1
<1> QED
  BY <1>2, <1>3 DEF p

(***************************************************************************)
(* What a bucket is worth.                                                 *)
(***************************************************************************)
LEMMA WorthType ==
    ASSUME NEW b \in Bucket
    PROVE  /\ Limit * Window \in Nat /\ Worth(b) \in Nat /\ Worth(b) <= Limit * Window
           /\ b.tokens # -1 =>
                /\ b.tokens * Window \in Nat /\ b.age * Limit \in Nat
                /\ Worth(b) <= b.tokens * Window + b.age * Limit
                /\ \/ Worth(b) = b.tokens * Window + b.age * Limit
                   \/ Worth(b) = Limit * Window
<1>1. Limit \in Nat /\ Window \in Nat
  BY RateLimiterAssumption
<1>2. Limit * Window \in Nat
  BY <1>1
<1>3. CASE b.tokens = -1
  BY <1>2, <1>3 DEF Worth
<1>4. CASE b.tokens # -1
  <2> DEFINE t == b.tokens * Window
             e == b.age * Limit
             f == Limit * Window
  <2>1. b.tokens \in Nat /\ b.age \in Nat
    BY <1>4, RateLimiterAssumption DEF Bucket
  <2>2. t \in Nat /\ e \in Nat /\ f \in Nat
    BY <1>1, <2>1
  <2>3. Worth(b) = Least(t + e, f)
    BY <1>4 DEF Worth
  <2> HIDE DEF t, e, f
  <2>4. /\ Least(t + e, f) \in Nat /\ Least(t + e, f) <= f /\ Least(t + e, f) <= t + e
        /\ Least(t + e, f) \in {t + e, f}
    BY <2>2 DEF Least
  <2> QED
    BY <1>2, <2>2, <2>3, <2>4 DEF t, e, f
<1> QED
  BY <1>3, <1>4

(***************************************************************************)
(* A refill is worth no more than the bucket was, and one that is not full *)
(* is worth what it holds and has earned: a token taken from it is paid.   *)
(***************************************************************************)
LEMMA RefillWorth ==
    ASSUME NEW b \in Bucket, b.tokens < Limit
    PROVE  Refill(b).tokens * Window + Refill(b).age * Limit <= Worth(b)
<1>1. Limit \in Nat \ {0} /\ Window \in Nat \ {0} /\ Limit * Window \in Nat
  BY WorthType, RateLimiterAssumption
<1>2. b.tokens \in Int /\ b.age \in Nat
  BY <1>1 DEF Bucket
<1>3. ASSUME b.tokens = -1 \/ b.age >= Window
      PROVE  Refill(b) = FullBucket /\ Worth(b) = Limit * Window
  <2>1. Refill(b) = FullBucket
    BY <1>3 DEF Refill
  <2>2. ASSUME b.tokens # -1 PROVE Worth(b) = Limit * Window
    <3>1. b.tokens * Window \in Nat /\ b.age * Limit \in Nat
      BY <2>2, WorthType
    <3>2. Window * Limit <= b.age * Limit
      BY <1>1, <1>2, <1>3, <2>2, Products
    <3>3. Window * Limit = Limit * Window
      BY <1>1
    <3>4. /\ Worth(b) \in Nat /\ Worth(b) <= Limit * Window
          /\ \/ Worth(b) = b.tokens * Window + b.age * Limit
             \/ Worth(b) = Limit * Window
      BY <2>2, WorthType
    <3> HIDE DEF Worth
    <3> QED
      BY <1>1, <3>1, <3>2, <3>3, <3>4
  <2> QED
    BY <2>1, <2>2 DEF Worth
<1>4. CASE b.tokens = -1 \/ b.age >= Window
  <2>1. Refill(b).tokens = Limit /\ Refill(b).age = 0
    BY <1>3, <1>4 DEF FullBucket
  <2> QED
    BY <1>1, <1>3, <1>4, <2>1
<1>5. CASE ~(b.tokens = -1 \/ b.age >= Window)
  <2> DEFINE t == b.tokens * Window
             e == b.age * Limit
             g == Earned(b.age)
             n == Least(b.tokens + g, Limit)
  <2>1. /\ t \in Nat /\ e \in Nat /\ Worth(b) \in {t + e, Limit * Window}
        /\ Worth(b) <= Limit * Window
    BY <1>5, WorthType
  <2>2. g \in Nat /\ g * Window <= e /\ e < g * Window + Window
    BY <1>2, EarnedType, EarnedWorth
  <2>3. CASE g > 0
    <3>1. Refill(b) = [tokens |-> n, age |-> 0]
      BY <1>5, <2>3 DEF Refill
    <3>2. n \in Nat /\ n <= Limit /\ n <= b.tokens + g
      BY <1>1, <1>2, <1>5, <2>2 DEF Least, Bucket
    <3>3. n * Window <= Limit * Window /\ n * Window <= (b.tokens + g) * Window
      BY <1>1, <1>2, <2>2, <3>2, Products
    <3>4. (b.tokens + g) * Window = t + g * Window /\ g * Window \in Int
      BY <1>1, <1>2, <2>2, Products
    <3>5. n * Window \in Int
      BY <1>1, <3>2, Products
    <3>6. Refill(b).tokens = n /\ Refill(b).age = 0
      BY <3>1
    <3> HIDE DEF n, t, e, g
    <3>7. n * Window <= Worth(b)
      BY <1>1, <2>1, <2>2, <3>3, <3>4, <3>5
    <3> QED
      BY <1>1, <3>5, <3>6, <3>7
  <2>4. CASE ~(g > 0)
    <3>1. Refill(b) = b /\ g = 0
      BY <1>5, <2>2, <2>4 DEF Refill
    <3>2. g * Window = 0
      BY <1>1, <3>1
    <3>3. (b.tokens + 1) * Window <= Limit * Window
      <4>1. b.tokens + 1 <= Limit /\ b.tokens + 1 \in Int
        BY <1>1, <1>2
      <4> QED
        BY <1>1, <4>1, Products
    <3>4. (b.tokens + 1) * Window = t + Window
      BY <1>1, <1>2, Products
    <3> HIDE DEF t, e, g
    <3>5. t + e <= Worth(b)
      BY <1>1, <2>1, <2>2, <3>2, <3>3, <3>4
    <3> QED
      BY <3>1, <3>5 DEF t, e
  <2> QED
    BY <2>3, <2>4
<1> QED
  BY <1>4, <1>5

(***************************************************************************)
(* A call that is allowed costs a token; one that is refused leaves the    *)
(* bucket as it was.                                                       *)
(***************************************************************************)
LEMMA SpendWorth ==
    ASSUME NEW b \in Bucket, b.tokens < Limit
    PROVE  /\ SpendToken(Refill(b)).tokens < Limit
           /\ TokenLeft(b) => Worth(SpendToken(Refill(b))) + Window <= Worth(b)
<1> DEFINE r == Refill(b)
           c == SpendToken(r)
<1>1. Limit \in Nat \ {0} /\ Window \in Nat \ {0} /\ Limit * Window \in Nat
  BY WorthType, RateLimiterAssumption
<1>2. c \in Bucket /\ (~TokenLeft(b) => c = b)
  BY SpendBucket
<1>3. r \in Bucket /\ r.tokens * Window + r.age * Limit <= Worth(b)
  BY RefillBucket, RefillWorth
<1>4. Worth(b) \in Nat
  BY WorthType
<1>5. ASSUME TokenLeft(b)
      PROVE  c.tokens < Limit /\ Worth(c) + Window <= Worth(b)
  <2>1. c = [r EXCEPT !.tokens = r.tokens - 1] /\ r.tokens > 0
    BY <1>5 DEF TokenLeft, SpendToken
  <2> HIDE DEF c, r
  <2>2. c.tokens = r.tokens - 1 /\ c.age = r.age /\ r.tokens \in 0..Limit /\ r.age \in Nat
    BY <1>1, <1>3, <2>1 DEF Bucket
  <2>3. Worth(c) <= c.tokens * Window + c.age * Limit /\ Worth(c) \in Nat
    <3>1. c.tokens # -1
      BY <2>1, <2>2
    <3> QED
      BY <1>2, <3>1, WorthType
  <2>4. c.tokens * Window = r.tokens * Window - Window
    BY <1>1, <2>2, Products
  <2>5. r.tokens * Window \in Int /\ r.age * Limit \in Int
    BY <1>1, <2>2, Products
  <2>6. Worth(c) + Window <= Worth(b)
    BY <1>1, <1>3, <1>4, <2>2, <2>3, <2>4, <2>5
  <2> QED
    BY <1>1, <2>1, <2>2, <2>6
<1> QED
  BY <1>2, <1>5

(***************************************************************************)
(* A tick is worth what it earns.                                          *)
(***************************************************************************)
LEMMA TickWorth ==
    ASSUME NEW b \in Bucket
    PROVE  /\ Aged(b) \in Bucket /\ Aged(b).tokens = b.tokens
           /\ Worth(Aged(b)) <= Worth(b) + Limit
<1>1. Limit \in Nat \ {0} /\ Window \in Nat \ {0} /\ Limit * Window \in Nat
  BY WorthType, RateLimiterAssumption
<1>2. Older(b.age) \in 0..2 * Window /\ Older(b.age) <= b.age + 1
  <2>1. b.age \in 0..2 * Window
    BY DEF Bucket
  <2> QED
    BY <2>1, OlderAges
<1>3. Aged(b) \in Bucket /\ Aged(b).tokens = b.tokens
  BY <1>2 DEF Aged, Bucket
<1> DEFINE w == Worth(b)
           v == Worth(Aged(b))
           full == Limit * Window
<1>4. w \in Nat /\ v \in Nat /\ v <= full /\ full \in Nat
  BY <1>1, <1>3, WorthType
<1>5. CASE b.tokens = -1 \/ w = full
  <2>1. w = full
    BY <1>5 DEF Worth
  <2> HIDE DEF w, v, full
  <2>2. v <= w + Limit
    BY <1>1, <1>4, <2>1
  <2> QED
    BY <1>3, <2>2 DEF w, v
<1>6. CASE b.tokens # -1 /\ w # full
  <2> DEFINE t == b.tokens * Window
             e == b.age * Limit
             o == Older(b.age) * Limit
  <2>1. w = t + e
    BY <1>6, WorthType
  <2>2. v <= t + o
    <3>1. Aged(b).tokens # -1 /\ Aged(b).age = Older(b.age)
      BY <1>3, <1>6 DEF Aged, Bucket
    <3>2. v <= Aged(b).tokens * Window + Aged(b).age * Limit
      BY <1>3, <3>1, WorthType
    <3> QED
      BY <1>3, <3>1, <3>2
  <2>3. b.tokens \in Int /\ b.age \in Nat /\ Older(b.age) \in Nat
    BY <1>1, <1>2 DEF Bucket
  <2>4. o <= (b.age + 1) * Limit
    BY <1>1, <1>2, <2>3, Products
  <2>5. (b.age + 1) * Limit = e + Limit
    BY <1>1, <2>3, Products
  <2>6. t \in Int /\ e \in Int /\ o \in Int
    BY <1>1, <2>3, Products
  <2>7. o <= e + Limit
    BY <2>4, <2>5
  <2> HIDE DEF w, v, t, e, o
  <2>8. v <= w + Limit
    BY <1>1, <1>4, <2>1, <2>2, <2>6, <2>7
  <2> QED
    BY <1>3, <2>8 DEF w, v
<1> QED
  BY <1>3, <1>5, <1>6

-----------------------------------------------------------------------------
(* The accounts of one key: what MemoryAccount says of the calls that were *)
(* allowed from its bucket, RedisAccount of those its counter allowed.     *)

MemoryPart(calls, b) ==
    /\ b.tokens < Limit
    /\ \A n \in Back : calls[n] * Window + Worth(b) <= Limit * Window + n * Limit

RedisPart(calls, c) ==
    LET begin == Window - c.ttl
    IN  /\ \A n \in Back \ {0} : calls[n - 1] <= calls[n]
        /\ c.count = 0 => calls[0] = 0 /\ calls[Window - 1] < Limit
        /\ c.count > 0 =>
              /\ calls[begin] <= Least(c.count, Limit)
              /\ begin > 0 => calls[begin - 1] < Least(c.count, Limit)
              /\ calls[Window - 1] - calls[begin] < Limit

More(calls) == [n \in Back |-> calls[n] + 1]
Shifted(calls) == [n \in Back |-> IF n = 0 THEN 0 ELSE calls[n - 1]]

LEMMA Parts ==
    /\ MemoryAccount <=> \A k \in Budget : MemoryPart(allowed[k]["memory"], bucket[k])
    /\ RedisAccount <=> \A k \in Budget : RedisPart(allowed[k]["redis"], counter[k])
  BY DEF MemoryAccount, MemoryPart, RedisAccount, RedisPart

LEMMA PartsPrime ==
    /\ MemoryAccount' <=>
          \A k \in Budget : MemoryPart(allowed'[k]["memory"], bucket'[k])
    /\ RedisAccount' <=>
          \A k \in Budget : RedisPart(allowed'[k]["redis"], counter'[k])
  BY DEF MemoryAccount, MemoryPart, RedisAccount, RedisPart, Worth

(***************************************************************************)
(* A call for a token: one allowed costs what the count rises by.          *)
(***************************************************************************)
LEMMA MemoryCall ==
    ASSUME NEW calls \in [Back -> Nat], NEW b \in Bucket, MemoryPart(calls, b)
    PROVE  MemoryPart(IF TokenLeft(b) THEN More(calls) ELSE calls, SpendToken(Refill(b)))
<1>1. CASE ~TokenLeft(b)
  BY <1>1, SpendBucket
<1>2. CASE TokenLeft(b)
  <2> DEFINE c == SpendToken(Refill(b))
             w == Worth(b)
             v == Worth(c)
  <2>1. b.tokens < Limit
    BY DEF MemoryPart
  <2>2. c.tokens < Limit /\ v + Window <= w
    BY <1>2, <2>1, SpendWorth
  <2>3. w \in Nat /\ v \in Nat
    BY SpendBucket, WorthType
  <2> HIDE DEF c, w, v
  <2>4. ASSUME NEW n \in Back
        PROVE  More(calls)[n] * Window + v <= Limit * Window + n * Limit
    <3> DEFINE p == calls[n] * Window
               q == Limit * Window + n * Limit
    <3>1. p + w <= q
      BY DEF MemoryPart, w
    <3>2. calls[n] \in Nat /\ Window \in Nat
      BY RateLimiterAssumption
    <3>3. More(calls)[n] * Window = p + Window /\ p \in Int
      BY <3>2, Products DEF More
    <3>4. q \in Int
      BY RateLimiterAssumption DEF Back
    <3> HIDE DEF p, q
    <3>5. (p + Window) + v <= q
      BY <2>2, <2>3, <3>1, <3>2, <3>3, <3>4
    <3> QED
      BY <3>3, <3>5 DEF q
  <2> QED
    BY <1>2, <2>2, <2>4 DEF MemoryPart, c, v
<1> QED
  BY <1>1, <1>2

(***************************************************************************)
(* A tick: the window moves on, the bucket earns what the bound allows.    *)
(***************************************************************************)
LEMMA MemoryTick ==
    ASSUME NEW calls \in [Back -> Nat], NEW b \in Bucket, MemoryPart(calls, b)
    PROVE  MemoryPart(Shifted(calls), Aged(b))
<1> DEFINE w == Worth(b)
           v == Worth(Aged(b))
           full == Limit * Window
<1>1. Aged(b) \in Bucket /\ Aged(b).tokens < Limit /\ v <= w + Limit
  BY TickWorth DEF MemoryPart
<1>2. w \in Nat /\ v \in Nat /\ full \in Nat /\ v <= full /\ Limit \in Nat /\ Window \in Nat
  BY <1>1, WorthType, RateLimiterAssumption
<1>3. ASSUME NEW n \in Back
      PROVE  Shifted(calls)[n] * Window + v <= full + n * Limit
  <2>1. n \in Nat
    BY RateLimiterAssumption DEF Back
  <2>2. CASE n = 0
    <3>1. Shifted(calls)[n] = 0
      BY <2>2 DEF Shifted
    <3>2. Shifted(calls)[n] * Window = 0 /\ n * Limit = 0
      BY <1>2, <2>2, <3>1
    <3> HIDE DEF v, full
    <3> QED
      BY <1>2, <3>2
  <2>3. CASE n # 0
    <3> DEFINE p == calls[n - 1] * Window
               q == (n - 1) * Limit
    <3>1. n - 1 \in Back /\ calls[n - 1] \in Nat
      BY <2>3, RateLimiterAssumption DEF Back
    <3>2. p + w <= full + q
      BY <3>1 DEF MemoryPart
    <3>3. Shifted(calls)[n] = calls[n - 1]
      BY <2>3 DEF Shifted
    <3>4. n * Limit = q + Limit /\ p \in Int /\ q \in Int
      <4>1. q = n * Limit - Limit /\ n * Limit \in Int
        BY <1>2, <2>1, Products
      <4>2. p \in Int
        BY <1>2, <3>1, Products
      <4> HIDE DEF p, q
      <4> QED
        BY <1>2, <4>1, <4>2
    <3> HIDE DEF p, q, v, w, full
    <3>5. p + v <= full + (q + Limit)
      BY <1>1, <1>2, <3>2, <3>4
    <3> QED
      BY <3>3, <3>4, <3>5 DEF p
  <2> QED
    BY <2>2, <2>3
<1> QED
  BY <1>1, <1>3 DEF MemoryPart

(***************************************************************************)
(* A bucket that cleanup forgets is worth what a full one is.              *)
(***************************************************************************)
LEMMA StaleWorth ==
    ASSUME NEW b \in Bucket, Stale(b)
    PROVE  Worth(NoBucket) = Worth(b)
<1>1. Limit \in Nat /\ Window \in Nat /\ Limit * Window \in Nat
  BY RateLimiterAssumption
<1>2. Worth(NoBucket) = Limit * Window
  BY DEF Worth, NoBucket
<1>3. CASE b.tokens = -1
  BY <1>2, <1>3 DEF Worth
<1>4. CASE b.tokens # -1
  <2> DEFINE full == Limit * Window
             t == b.tokens * Window
             e == b.age * Limit
  <2>1. t \in Nat /\ e \in Nat /\ Worth(b) \in {t + e, full} /\ Worth(b) <= full
    BY <1>4, WorthType
  <2>2. full <= e
    <3>1. Window <= b.age /\ b.age \in Int
      BY <1>1 DEF Stale, Bucket
    <3>2. Window * Limit <= e /\ Window * Limit = full
      BY <1>1, <3>1, Products
    <3> QED
      BY <3>2
  <2>3. full \in Nat
    BY <1>1
  <2> HIDE DEF full, t, e
  <2>4. Worth(b) = full
    BY <2>1, <2>2, <2>3
  <2> QED
    BY <1>2, <2>4 DEF full
<1> QED
  BY <1>3, <1>4

(***************************************************************************)
(* The Lua script: what is allowed is counted, up to the limit.            *)
(***************************************************************************)
LEMMA RedisCall ==
    ASSUME NEW k \in Budget, NEW calls \in [Back -> Nat],
           counter[k] \in [count : 0..Limit + 1, ttl : 0..Window],
           counter[k].count > 0 => counter[k].ttl >= 1,
           RedisPart(calls, counter[k])
    PROVE  /\ RedisPart(calls, Script(k))
           /\ RedisPart(IF Script(k).count <= Limit THEN More(calls) ELSE calls, Script(k))
<1> DEFINE c == counter[k]
           s == Script(k)
           begin == Window - s.ttl
<1>1. Limit \in Nat \ {0} /\ Window \in Nat \ {0} /\ 0 \in Back /\ Window - 1 \in Back
  BY RateLimiterAssumption DEF Back
<1>2. /\ c.count \in 0..Limit + 1 /\ c.ttl \in 0..Window
      /\ s.count = Least(c.count + 1, Limit + 1)
      /\ c.count = 0 => s.ttl = Window
      /\ c.count > 0 => s.ttl = c.ttl /\ c.ttl >= 1
  BY DEF Script, Counted
<1>3. s.count \in 1..Limit + 1 /\ begin \in Back /\ (begin > 0 => begin - 1 \in Back)
  <2>1. c.count + 1 \in 1..Limit + 2 /\ s.ttl \in 1..Window
    <3> HIDE DEF c, s
    <3> QED
      BY <1>1, <1>2
  <2>2. s.count \in 1..Limit + 1
    BY <1>1, <1>2, <2>1 DEF Least
  <2> HIDE DEF s
  <2>3. begin \in Back /\ (begin > 0 => begin - 1 \in Back)
    BY <1>1, <2>1 DEF Back
  <2> QED
    BY <2>2, <2>3
<1>4. /\ \A n \in Back : calls[n] \in Nat /\ More(calls)[n] = calls[n] + 1
      /\ \A n \in Back \ {0} : n - 1 \in Back /\ calls[n - 1] <= calls[n]
  BY <1>1 DEF More, RedisPart, Back
<1>5. /\ calls[begin] <= Least(c.count, Limit)
      /\ begin > 0 => calls[begin - 1] < Least(c.count, Limit)
      /\ calls[Window - 1] - calls[begin] < Limit
  <2>1. CASE c.count = 0
    <3>1. begin = 0 /\ calls[0] = 0 /\ calls[Window - 1] < Limit
      BY <1>1, <1>2, <2>1 DEF RedisPart
    <3> QED
      BY <1>1, <1>4, <2>1, <3>1 DEF Least
  <2>2. CASE c.count > 0
    BY <1>2, <2>2 DEF RedisPart
  <2> QED
    BY <1>2, <2>1, <2>2
<1>6. /\ Least(c.count, Limit) <= Least(s.count, Limit)
      /\ s.count <= Limit => Least(s.count, Limit) = Least(c.count, Limit) + 1
      /\ Least(c.count, Limit) \in Nat /\ Least(s.count, Limit) \in Nat
  BY <1>1, <1>2 DEF Least
<1> HIDE DEF c, s
<1>7. RedisPart(calls, s)
  <2>1. /\ calls[begin] <= Least(s.count, Limit)
        /\ begin > 0 => calls[begin - 1] < Least(s.count, Limit)
    BY <1>3, <1>4, <1>5, <1>6
  <2> QED
    BY <1>3, <1>4, <1>5, <2>1 DEF RedisPart
<1>8. ASSUME s.count <= Limit PROVE RedisPart(More(calls), s)
  <2> DEFINE more == More(calls)
  <2>1. /\ more[begin] <= Least(s.count, Limit)
        /\ begin > 0 => more[begin - 1] < Least(s.count, Limit)
        /\ more[Window - 1] - more[begin] < Limit
    BY <1>1, <1>3, <1>4, <1>5, <1>6, <1>8
  <2>2. \A n \in Back \ {0} : more[n - 1] <= more[n]
    BY <1>4
  <2> HIDE DEF more
  <2>3. RedisPart(more, s)
    BY <1>3, <2>1, <2>2 DEF RedisPart
  <2> QED
    BY <2>3 DEF more
<1> QED
  BY <1>7, <1>8 DEF s

(***************************************************************************)
(* A tick: the window moves on, and once the first call of the counter is  *)
(* no longer in it the counter expires.                                    *)
(***************************************************************************)
LEMMA RedisTick ==
    ASSUME NEW calls \in [Back -> Nat],
           NEW c \in [count : 0..Limit + 1, ttl : 0..Window],
           c.count > 0 => c.ttl >= 1,
           RedisPart(calls, c)
    PROVE  RedisPart(Shifted(calls), Expired(c))
<1> DEFINE next == Shifted(calls)
           begin == Window - c.ttl
           most == Least(c.count, Limit)
<1>1. Limit \in Nat \ {0} /\ Window \in Nat \ {0} /\ 0 \in Back /\ Window - 1 \in Back
  BY RateLimiterAssumption DEF Back
<1>2. c.count \in 0..Limit + 1 /\ c.ttl \in 0..Window
  OBVIOUS
<1>3. /\ \A n \in Back : calls[n] \in Nat
      /\ \A n \in Back \ {0} : n - 1 \in Back /\ calls[n - 1] <= calls[n]
  BY <1>1 DEF RedisPart, Back
<1>4. next[0] = 0 /\ \A n \in Back \ {0} : next[n] = calls[n - 1]
  BY <1>1 DEF Shifted
<1>5. \A n \in Back \ {0} : next[n - 1] <= next[n]
  <2> SUFFICES ASSUME NEW n \in Back \ {0} PROVE next[n - 1] <= next[n]
    OBVIOUS
  <2>1. CASE n - 1 = 0
    BY <1>3, <1>4, <2>1
  <2>2. CASE n - 1 # 0
    <3>1. n - 1 \in Back \ {0}
      BY <1>3, <2>2
    <3> QED
      BY <1>3, <1>4, <3>1
  <2> QED
    BY <2>1, <2>2
<1>6. CASE Expired(c).count = 0
  <2>1. next[Window - 1] < Limit
    <3>1. CASE Window = 1
      BY <1>1, <1>4, <3>1
    <3>2. CASE Window # 1
      <4>1. Window - 1 \in Back \ {0} /\ next[Window - 1] = calls[(Window - 1) - 1]
        BY <1>1, <1>4, <3>2
      <4>2. (Window - 1) - 1 \in Back /\ calls[(Window - 1) - 1] <= calls[Window - 1]
        BY <1>3, <4>1
      <4>3. CASE c.count = 0
        <5>1. calls[Window - 1] < Limit
          BY <4>3 DEF RedisPart
        <5> QED
          BY <1>1, <1>3, <4>1, <4>2, <5>1
      <4>4. CASE c.count # 0
        <5>1. c.ttl = 1 /\ c.count > 0
          BY <1>2, <1>6, <4>4 DEF Expired
        <5>2. calls[(Window - c.ttl) - 1] < Least(c.count, Limit)
          BY <1>1, <3>2, <5>1 DEF RedisPart
        <5>3. Least(c.count, Limit) <= Limit /\ Least(c.count, Limit) \in Nat
          BY <1>1, <1>2 DEF Least
        <5> QED
          BY <1>1, <1>3, <4>1, <4>2, <5>1, <5>2, <5>3
      <4> QED
        BY <4>3, <4>4
    <3> QED
      BY <3>1, <3>2
  <2> HIDE DEF next
  <2>2. RedisPart(next, Expired(c))
    BY <1>4, <1>5, <1>6, <2>1 DEF RedisPart
  <2> QED
    BY <2>2 DEF next
<1>7. CASE Expired(c).count # 0
  <2>1. /\ Expired(c).count = c.count /\ Expired(c).ttl = c.ttl - 1
        /\ c.count > 0 /\ c.ttl > 1
    <3>1. ~(c.ttl <= 1)
      BY <1>7 DEF Expired, NoCounter
    <3>2. Expired(c) = [c EXCEPT !.ttl = c.ttl - 1]
      BY <3>1 DEF Expired
    <3> QED
      BY <1>2, <1>7, <3>1, <3>2
  <2>2. /\ begin \in Back /\ begin + 1 \in Back \ {0}
        /\ Window - Expired(c).ttl = begin + 1 /\ (begin + 1) - 1 = begin
        /\ begin # 0 => begin > 0 /\ begin \in Back \ {0}
    BY <1>1, <1>2, <2>1 DEF Back
  <2>3. /\ calls[begin] <= most
        /\ begin > 0 => calls[begin - 1] < most
        /\ calls[Window - 1] - calls[begin] < Limit
    BY <2>1 DEF RedisPart
  <2>4. most \in Nat /\ most > 0
    BY <1>1, <1>2, <2>1 DEF Least
  <2>5. next[begin + 1] = calls[begin] /\ next[begin + 1] <= most
    BY <1>4, <2>2, <2>3
  <2>6. next[begin] < most
    <3>1. CASE begin = 0
      BY <1>4, <2>4, <3>1
    <3>2. CASE begin # 0
      BY <1>4, <2>2, <2>3, <3>2
    <3> QED
      BY <3>1, <3>2
  <2>7. next[Window - 1] - next[begin + 1] < Limit
    <3>1. Window - 1 \in Back \ {0}
      BY <1>1, <1>2, <2>1
    <3>2. next[Window - 1] = calls[(Window - 1) - 1] /\ (Window - 1) - 1 \in Back
      BY <1>3, <1>4, <3>1
    <3>3. calls[(Window - 1) - 1] <= calls[Window - 1]
      BY <1>3, <3>1
    <3> QED
      BY <1>1, <1>3, <2>2, <2>3, <2>5, <3>2, <3>3
  <2> HIDE DEF next, begin
  <2>8. RedisPart(next, Expired(c))
    BY <1>5, <1>7, <2>1, <2>2, <2>5, <2>6, <2>7 DEF RedisPart
  <2> QED
    BY <2>8 DEF next
<1> QED
  BY <1>6, <1>7

(***************************************************************************)
(* One step at a time: the account of a store changes with its own calls   *)
(* and with time.                                                          *)
(***************************************************************************)
LEMMA AccountTypes ==
    ASSUME SteadyInv, NEW k \in Budget
    PROVE  /\ bucket[k] \in Bucket
           /\ counter[k] \in [count : 0..Limit + 1, ttl : 0..Window]
           /\ counter[k].count > 0 => counter[k].ttl >= 1
           /\ allowed[k]["memory"] \in [Back -> Nat]
           /\ allowed[k]["redis"] \in [Back -> Nat]
  BY DEF SteadyInv, LimiterTypeOK, CounterAccount, Bucket, Store

LEMMA CallObserved ==
    ASSUME SteadyInv, NEW k \in Budget, NEW by \in Store, NEW allow \in BOOLEAN,
           Observe(k, by, allow)
    PROVE  \A q \in Budget, st \in Store :
              allowed'[q][st] = IF allow /\ q = k /\ st = by THEN More(allowed[q][st])
                                ELSE allowed[q][st]
<1>1. CASE ~allow
  BY <1>1 DEF Observe
<1>2. CASE allow
  <2>1. allowed' = [allowed EXCEPT ![k] =
                      [allowed[k] EXCEPT ![by] = More(allowed[k][by])]]
    BY <1>2 DEF Observe, More
  <2>2. /\ allowed \in [Budget -> [Store -> [Back -> Nat]]]
        /\ allowed[k] \in [Store -> [Back -> Nat]]
    BY DEF SteadyInv, LimiterTypeOK
  <2> QED
    BY <1>2, <2>1, <2>2
<1> QED
  BY <1>1, <1>2

LEMMA CheckRedisAccounts ==
    ASSUME SteadyInv, MemoryAccount, RedisAccount, NEW k \in Budget, CheckRedis(k)
    PROVE  MemoryAccount' /\ RedisAccount'
<1> DEFINE allow == Script(k).count <= Limit
<1>1. /\ counter' = [counter EXCEPT ![k] = Script(k)]
      /\ Observe(k, "redis", allow) /\ UNCHANGED bucket
  BY DEF CheckRedis
<1>2. allow \in BOOLEAN /\ "redis" \in Store /\ "memory" \in Store
  BY DEF Store
<1>3. /\ \A q \in Budget : allowed'[q]["memory"] = allowed[q]["memory"]
      /\ \A q \in Budget : q # k => allowed'[q]["redis"] = allowed[q]["redis"]
      /\ allowed'[k]["redis"] = IF allow THEN More(allowed[k]["redis"])
                                ELSE allowed[k]["redis"]
  <2> HIDE DEF allow
  <2> QED
    BY <1>1, <1>2, CallObserved
<1>4. counter \in [Budget -> [count : 0..Limit + 1, ttl : 0..Window]]
  BY DEF SteadyInv, LimiterTypeOK
<1>5. RedisPart(allowed'[k]["redis"], counter'[k])
  <2>1. RedisPart(IF allow THEN More(allowed[k]["redis"]) ELSE allowed[k]["redis"],
                  Script(k))
    BY AccountTypes, Parts, RedisCall
  <2>2. counter'[k] = Script(k)
    BY <1>1, <1>4
  <2> QED
    BY <1>3, <2>1, <2>2
<1>6. \A q \in Budget : q # k => RedisPart(allowed'[q]["redis"], counter'[q])
  BY <1>1, <1>3, <1>4, Parts
<1>7. \A q \in Budget : MemoryPart(allowed'[q]["memory"], bucket'[q])
  BY <1>1, <1>3, Parts
<1> QED
  BY <1>5, <1>6, <1>7, PartsPrime

LEMMA RedisFailsAccounts ==
    ASSUME SteadyInv, MemoryAccount, RedisAccount, NEW k \in Budget, RedisFails(k)
    PROVE  MemoryAccount' /\ RedisAccount'
<1>1. /\ counter' \in {counter, [counter EXCEPT ![k] = Script(k)]}
      /\ UNCHANGED <<bucket, allowed>>
  BY DEF RedisFails
<1>2. counter \in [Budget -> [count : 0..Limit + 1, ttl : 0..Window]]
  BY DEF SteadyInv, LimiterTypeOK
<1>3. RedisPart(allowed[k]["redis"], Script(k)) /\ RedisPart(allowed[k]["redis"], counter[k])
  BY AccountTypes, Parts, RedisCall
<1>4. \A q \in Budget : RedisPart(allowed'[q]["redis"], counter'[q])
  BY <1>1, <1>2, <1>3, Parts
<1>5. \A q \in Budget : MemoryPart(allowed'[q]["memory"], bucket'[q])
  BY <1>1, Parts
<1> QED
  BY <1>4, <1>5, PartsPrime

LEMMA CheckInMemoryAccounts ==
    ASSUME SteadyInv, MemoryAccount, RedisAccount, NEW k \in Budget, CheckInMemory(k)
    PROVE  MemoryAccount' /\ RedisAccount'
<1> DEFINE allow == TokenLeft(bucket[k])
<1>1. /\ bucket' = [bucket EXCEPT ![k] = SpendToken(Refill(bucket[k]))]
      /\ Observe(k, "memory", allow) /\ UNCHANGED counter
  BY DEF CheckInMemory
<1>2. allow \in BOOLEAN /\ "redis" \in Store /\ "memory" \in Store
  BY DEF Store, TokenLeft
<1>3. /\ \A q \in Budget : allowed'[q]["redis"] = allowed[q]["redis"]
      /\ \A q \in Budget : q # k => allowed'[q]["memory"] = allowed[q]["memory"]
      /\ allowed'[k]["memory"] = IF allow THEN More(allowed[k]["memory"])
                                 ELSE allowed[k]["memory"]
  <2> HIDE DEF allow
  <2> QED
    BY <1>1, <1>2, CallObserved
<1>4. bucket \in [Budget -> Bucket]
  BY DEF SteadyInv, LimiterTypeOK, Bucket
<1>5. MemoryPart(allowed'[k]["memory"], bucket'[k])
  <2>1. MemoryPart(IF allow THEN More(allowed[k]["memory"]) ELSE allowed[k]["memory"],
                   SpendToken(Refill(bucket[k])))
    BY AccountTypes, Parts, MemoryCall
  <2>2. bucket'[k] = SpendToken(Refill(bucket[k]))
    BY <1>1, <1>4
  <2> QED
    BY <1>3, <2>1, <2>2
<1>6. \A q \in Budget : q # k => MemoryPart(allowed'[q]["memory"], bucket'[q])
  BY <1>1, <1>3, <1>4, Parts
<1>7. \A q \in Budget : RedisPart(allowed'[q]["redis"], counter'[q])
  BY <1>1, <1>3, Parts
<1> QED
  BY <1>5, <1>6, <1>7, PartsPrime

LEMMA CleanupAccounts ==
    ASSUME SteadyInv, MemoryAccount, RedisAccount, Cleanup
    PROVE  MemoryAccount' /\ RedisAccount'
<1>1. /\ \A k \in Budget : bucket'[k] = IF Stale(bucket[k]) THEN NoBucket ELSE bucket[k]
      /\ UNCHANGED <<counter, allowed>>
  BY DEF Cleanup
<1>2. ASSUME NEW k \in Budget
      PROVE  MemoryPart(allowed[k]["memory"], bucket'[k])
  <2>1. CASE Stale(bucket[k])
    <3>1. bucket'[k] = NoBucket /\ Worth(NoBucket) = Worth(bucket[k])
      BY <1>1, <2>1, AccountTypes, StaleWorth
    <3>2. NoBucket.tokens < Limit
      BY RateLimiterAssumption DEF NoBucket
    <3> QED
      BY <3>1, <3>2, Parts DEF MemoryPart
  <2>2. CASE ~Stale(bucket[k])
    BY <1>1, <2>2, Parts
  <2> QED
    BY <2>1, <2>2
<1> QED
  BY <1>1, <1>2, Parts, PartsPrime

LEMMA TickAccounts ==
    ASSUME SteadyInv, MemoryAccount, RedisAccount, Tick
    PROVE  MemoryAccount' /\ RedisAccount'
<1>1. \A k \in Budget :
         /\ bucket'[k] = Aged(bucket[k]) /\ counter'[k] = Expired(counter[k])
         /\ allowed'[k]["memory"] = Shifted(allowed[k]["memory"])
         /\ allowed'[k]["redis"] = Shifted(allowed[k]["redis"])
  BY DEF Tick, Shifted, Store
<1>2. ASSUME NEW k \in Budget
      PROVE  /\ MemoryPart(allowed'[k]["memory"], bucket'[k])
             /\ RedisPart(allowed'[k]["redis"], counter'[k])
  <2>1. MemoryPart(Shifted(allowed[k]["memory"]), Aged(bucket[k]))
    BY AccountTypes, Parts, MemoryTick
  <2>2. RedisPart(Shifted(allowed[k]["redis"]), Expired(counter[k]))
    BY AccountTypes, Parts, RedisTick
  <2> QED
    BY <1>1, <2>1, <2>2
<1> QED
  BY <1>2, PartsPrime

(***************************************************************************)
(* Within a window the bucket is paid twice the limit at most, and less    *)
(* than that for what it has not earned yet; a counter and the one before  *)
(* it allow the limit and less than the limit.                             *)
(***************************************************************************)
LEMMA AccountsBound ==
    ASSUME SteadyInv, MemoryAccount, RedisAccount
    PROVE  WindowBound
<1>1. Limit \in Nat \ {0} /\ Window \in Nat \ {0} /\ Window - 1 \in Back
  BY RateLimiterAssumption DEF Back
<1>2. ASSUME NEW k \in Budget PROVE allowed[k]["memory"][Window - 1] < 2 * Limit
  <2> DEFINE a == allowed[k]["memory"][Window - 1]
             w == Worth(bucket[k])
             full == Limit * Window
  <2>1. a \in Nat /\ w \in Nat /\ full \in Nat
    BY <1>1, AccountTypes, WorthType
  <2>2. a * Window + w <= full + (Window - 1) * Limit
    BY <1>1, Parts DEF MemoryPart
  <2>3. (Window - 1) * Limit = full - Limit
    <3>1. (Window - 1) * Limit = Window * Limit - Limit /\ Window * Limit = full
      BY <1>1, Products
    <3> QED
      BY <3>1
  <2>4. a * Window \in Int /\ (2 * Limit) * Window = full + full
    <3>1. (Limit + Limit) * Window = full + full /\ Limit + Limit = 2 * Limit
      BY <1>1, Products
    <3> QED
      BY <1>1, <2>1, <3>1, Products
  <2>5. ~(2 * Limit <= a)
    <3>1. ASSUME 2 * Limit <= a PROVE (2 * Limit) * Window <= a * Window
      BY <1>1, <2>1, <3>1, Products
    <3> HIDE DEF a, w, full
    <3>2. a * Window < full + full
      BY <1>1, <2>1, <2>2, <2>3, <2>4
    <3>3. ASSUME 2 * Limit <= a PROVE FALSE
      <4>1. full + full <= a * Window
        BY <2>4, <3>1, <3>3
      <4> QED
        BY <2>1, <2>4, <3>2, <4>1
    <3> QED
      BY <3>3
  <2> HIDE DEF a
  <2>6. a < 2 * Limit
    BY <1>1, <2>1, <2>5
  <2> QED
    BY <2>6 DEF a
<1>3. ASSUME NEW k \in Budget PROVE allowed[k]["redis"][Window - 1] < 2 * Limit
  <2> DEFINE calls == allowed[k]["redis"]
             c == counter[k]
  <2>1. /\ calls \in [Back -> Nat] /\ RedisPart(calls, c)
        /\ c.count \in 0..Limit + 1 /\ c.ttl \in 0..Window
        /\ c.count > 0 => c.ttl >= 1
    BY AccountTypes, Parts
  <2> HIDE DEF calls, c
  <2>2. ASSUME c.count = 0 PROVE calls[Window - 1] < 2 * Limit
    <3>1. calls[Window - 1] < Limit /\ calls[Window - 1] \in Nat
      BY <1>1, <2>1, <2>2 DEF RedisPart
    <3> QED
      BY <1>1, <3>1
  <2>3. ASSUME c.count > 0 PROVE calls[Window - 1] < 2 * Limit
    <3>1. Window - c.ttl \in Back
      BY <1>1, <2>1, <2>3 DEF Back
    <3>2. /\ calls[Window - c.ttl] <= Least(c.count, Limit)
          /\ calls[Window - 1] - calls[Window - c.ttl] < Limit
      BY <2>1, <2>3 DEF RedisPart
    <3>3. Least(c.count, Limit) \in Nat /\ Least(c.count, Limit) <= Limit
      BY <1>1, <2>1 DEF Least
    <3>4. calls[Window - c.ttl] \in Nat /\ calls[Window - 1] \in Nat
      BY <1>1, <2>1, <3>1
    <3>5. calls[Window - 1] < 2 * Limit
      BY <1>1, <3>2, <3>3, <3>4
    <3> QED
      BY <3>5
  <2>4. calls[Window - 1] < 2 * Limit
    BY <1>1, <2>1, <2>2, <2>3
  <2> QED
    BY <2>4 DEF calls
<1> QED
  BY <1>2, <1>3 DEF WindowBound, Store

LEMMA LimiterInitAccounts == LimiterInit => MemoryAccount /\ RedisAccount
<1> SUFFICES ASSUME LimiterInit PROVE MemoryAccount /\ RedisAccount
  OBVIOUS
<1>1. Limit \in Nat \ {0} /\ Window \in Nat \ {0} /\ 0 \in Back /\ Window - 1 \in Back
  BY RateLimiterAssumption DEF Back
<1>2. \A k \in Budget :
         /\ bucket[k] = NoBucket /\ counter[k] = NoCounter
         /\ \A by \in Store, n \in Back : allowed[k][by][n] = 0
  BY DEF LimiterInit
<1>3. Worth(NoBucket) = Limit * Window /\ NoBucket.tokens < Limit
  BY <1>1 DEF Worth, NoBucket
<1>4. ASSUME NEW k \in Budget PROVE MemoryPart(allowed[k]["memory"], bucket[k])
  <2>1. ASSUME NEW n \in Back
        PROVE  allowed[k]["memory"][n] * Window + Worth(bucket[k])
                  <= Limit * Window + n * Limit
    <3> DEFINE full == Limit * Window
               e == n * Limit
    <3>1. n \in Nat /\ full \in Nat /\ 0 <= e /\ e \in Int
      <4>1. n \in Nat
        BY <1>1 DEF Back
      <4> QED
        BY <1>1, <4>1, Products
    <3>2. allowed[k]["memory"][n] = 0 /\ Worth(bucket[k]) = full
      BY <1>2, <1>3 DEF Store
    <3>3. 0 * Window = 0
      BY <1>1
    <3> HIDE DEF full, e
    <3>4. 0 + full <= full + e
      BY <3>1
    <3> QED
      BY <3>2, <3>3, <3>4 DEF full, e
  <2> QED
    BY <1>2, <1>3, <2>1 DEF MemoryPart
<1>5. ASSUME NEW k \in Budget PROVE RedisPart(allowed[k]["redis"], counter[k])
  <2>1. counter[k].count = 0 /\ \A n \in Back : allowed[k]["redis"][n] = 0
    BY <1>2 DEF NoCounter, Store
  <2>2. \A n \in Back \ {0} : n - 1 \in Back
    BY <1>1 DEF Back
  <2> QED
    BY <1>1, <2>1, <2>2 DEF RedisPart
<1> QED
  BY <1>4, <1>5, Parts

-----------------------------------------------------------------------------
(***************************************************************************)
(* The limiter, for any budgets, limit and window, whatever fails: buckets *)
(* and counters stay within their bounds, an empty bucket earns from the   *)
(* last allowed call on, a counter never outlives two quiet windows, and   *)
(* no window sees twice the limit allowed from either store.               *)
(***************************************************************************)
THEOREM LimiterInvariance == LimiterSpec => []LimiterInv
<1> DEFINE IInv == SteadyInv /\ MemoryAccount /\ RedisAccount
<1>1. LimiterInit => IInv
  BY LimiterInitInv, LimiterInitAccounts
<1>2. ASSUME IInv, [LimiterNext]_limiter PROVE IInv'
  <2>1. CASE UNCHANGED limiter
    BY <1>2, <2>1 DEF limiter, SteadyInv, LimiterTypeOK, BucketAccount, CounterAccount,
                      MemoryAccount, RedisAccount, Worth
  <2>2. CASE \E k \in Budget : CheckRedis(k)
    BY <1>2, <2>2, CheckRedisPreserves, CheckRedisAccounts
  <2>3. CASE \E k \in Budget : RedisFails(k)
    BY <1>2, <2>3, RedisFailsPreserves, RedisFailsAccounts
  <2>4. CASE \E k \in Budget : CheckInMemory(k)
    BY <1>2, <2>4, CheckInMemoryPreserves, CheckInMemoryAccounts
  <2>5. CASE Cleanup
    BY <1>2, <2>5, CleanupPreserves, CleanupAccounts
  <2>6. CASE Tick
    BY <1>2, <2>6, TickPreserves, TickAccounts
  <2> QED
    BY <1>2, <2>1, <2>2, <2>3, <2>4, <2>5, <2>6 DEF LimiterNext
<1>3. IInv => LimiterInv
  BY AccountsBound DEF SteadyInv, LimiterInv
<1> QED
  BY <1>1, <1>2, <1>3, PTL DEF LimiterSpec

(***************************************************************************)
(* The same without the observations: what the other theorems rest on.     *)
(***************************************************************************)
LEMMA Steady == LimiterSpec => []SteadyInv
<1>1. LimiterInv => SteadyInv
  BY DEF LimiterInv, SteadyInv
<1> QED
  BY <1>1, LimiterInvariance, PTL

(***************************************************************************)
(* No window of a budget, wherever it begins, lets twice the limit through *)
(* in Redis, on both sides of an expiry, nor in memory, where a burst is   *)
(* followed by what the bucket earns.                                      *)
(***************************************************************************)
THEOREM NoDoubleWindow == LimiterSpec => []WindowBound
<1>1. LimiterInv => WindowBound
  BY DEF LimiterInv
<1> QED
  BY <1>1, LimiterInvariance, PTL

(***************************************************************************)
(* After two quiet windows (one without Redis) both budgets of a key have  *)
(* room again, whatever failed and whatever was refused meanwhile.         *)
(***************************************************************************)
THEOREM RoomAgain == LimiterSpec => []NoStarvation
<1>1. SteadyInv => NoStarvation
  <2> SUFFICES ASSUME SteadyInv, NEW k \in Budget, failed[k] = 0,
                      quiet[k] >= (IF hasRedis THEN 2 ELSE 1) * Window
               PROVE  /\ hasRedis => Script(k).count <= Limit
                      /\ TokenLeft(bucket[k])
    BY DEF NoStarvation
  <2>1. /\ bucket[k] \in Bucket /\ quiet[k] \in 0..2 * Window
        /\ counter[k] \in [count : 0..Limit + 1, ttl : 0..Window]
    BY DEF SteadyInv, LimiterTypeOK, Bucket
  <2>2. quiet[k] >= Window
    BY <2>1, RateLimiterAssumption
  <2>3. Refill(bucket[k]).tokens > 0
    <3>1. /\ bucket[k].tokens \in -1..Limit /\ bucket[k].age \in Nat
          /\ Refill(bucket[k]).tokens >= 0 /\ Refill(bucket[k]) \in Bucket
          /\ bucket[k].age >= Window => Refill(bucket[k]).tokens > 0
          /\ Refill(bucket[k]).tokens = 0 => Refill(bucket[k]) = bucket[k]
      BY <2>1, RefillBucket DEF Bucket
    <3>2. ASSUME Refill(bucket[k]).tokens = 0 PROVE FALSE
      <4>1. bucket[k].tokens = 0
        BY <3>1, <3>2
      <4>2. bucket[k].age >= quiet[k]
        BY <4>1 DEF SteadyInv, BucketAccount
      <4>3. bucket[k].age >= Window
        BY <2>1, <2>2, <3>1, <4>2, RateLimiterAssumption
      <4> QED
        BY <3>1, <3>2, <4>3
    <3>3. Refill(bucket[k]).tokens \in -1..Limit
      BY <3>1 DEF Bucket
    <3> QED
      BY <3>1, <3>2, <3>3, RateLimiterAssumption
  <2>4. ASSUME hasRedis PROVE Script(k).count <= Limit
    <3>1. counter[k].count = 0
      <4>1. ASSUME counter[k].count > 0 PROVE FALSE
        <5>1. counter[k].ttl >= 1 /\ quiet[k] < 2 * Window - counter[k].ttl
          BY <4>1 DEF SteadyInv, CounterAccount
        <5> QED
          BY <2>1, <2>4, <5>1, RateLimiterAssumption
      <4> QED
        BY <2>1, <4>1
    <3> QED
      BY <2>1, <3>1, ScriptCounter, RateLimiterAssumption
  <2> QED
    BY <2>3, <2>4 DEF TokenLeft
<1> QED
  BY <1>1, Steady, PTL

(***************************************************************************)
(* cleanup forgets only buckets that the next check would fill.            *)
(***************************************************************************)
THEOREM ForgettingIsFree == LimiterSpec => CleanupGrantsNothing
<1> DEFINE Free == \A k \in Budget :
               bucket'[k] = NoBucket => Refill(bucket[k]) = FullBucket
<1>1. ASSUME SteadyInv, LimiterNext PROVE Free
  <2> SUFFICES ASSUME NEW k \in Budget, bucket'[k] = NoBucket
               PROVE  Refill(bucket[k]) = FullBucket
    OBVIOUS
  <2>1. /\ bucket \in [Budget -> Bucket] /\ NoBucket.tokens = -1
        /\ \A q \in Budget : bucket[q].age \in Nat /\ bucket[q].tokens \in Int
    <3>1. bucket \in [Budget -> Bucket]
      BY <1>1 DEF SteadyInv, LimiterTypeOK, Bucket
    <3>2. \A q \in Budget : bucket[q].age \in 0..2 * Window /\ bucket[q].tokens \in -1..Limit
      BY <3>1 DEF Bucket
    <3> QED
      BY <3>1, <3>2 DEF NoBucket
  <2>2. bucket[k].tokens = -1 \/ bucket[k].age >= Window
    <3>1. CASE UNCHANGED bucket
      BY <2>1, <3>1
    <3>2. ASSUME NEW q \in Budget, CheckInMemory(q) PROVE bucket[k].tokens = -1
      <4>1. bucket' = [bucket EXCEPT ![q] = SpendToken(Refill(bucket[q]))]
        BY <3>2 DEF CheckInMemory
      <4>2. SpendToken(Refill(bucket[q])).tokens >= 0
        BY <2>1, SpendBucket
      <4>3. k # q
        BY <2>1, <4>1, <4>2
      <4> QED
        BY <2>1, <4>1, <4>3
    <3>3. CASE Cleanup
      <4>1. bucket[k].age >= 2 * Window \/ bucket[k] = NoBucket
        BY <3>3 DEF Cleanup, Stale
      <4> QED
        BY <2>1, <4>1, RateLimiterAssumption
    <3>4. CASE Tick
      <4>1. Aged(bucket[k]) = NoBucket
        BY <3>4 DEF Tick
      <4>2. Aged(bucket[k]).tokens = bucket[k].tokens
        BY <2>1 DEF Aged, Bucket
      <4> QED
        BY <2>1, <4>1, <4>2
    <3> QED
      BY <1>1, <3>1, <3>2, <3>3, <3>4 DEF LimiterNext, CheckRedis, RedisFails
  <2> QED
    BY <2>2 DEF Refill
<1>2. SteadyInv /\ [LimiterNext]_limiter => [Free]_limiter
  BY <1>1
<1> QED
  BY <1>2, Steady, PTL DEF LimiterSpec, CleanupGrantsNothing
=============================================================================
