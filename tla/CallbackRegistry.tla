-------------------------- MODULE CallbackRegistry --------------------------
(***************************************************************************)
(* What ProfileHandler promises its clients, with every operation atomic: *)
(* a registry of live tokens in registration order (the order in which    *)
(* each tick calls them), the tokens each client holds, and the number of *)
(* ticks delivered.  RegisterCallback appends a fresh token and hands it  *)
(* to the caller; UnregisterCallback removes a token its caller holds;    *)
(* Reset destroys every token; a tick is counted.                         *)
(***************************************************************************)
EXTENDS Integers, Sequences, SequencesExt, SequenceTheorems, TLAPS

CONSTANTS
  Clients,   \* the threads calling the public interface
  Tokens     \* the tokens RegisterCallback may return

VARIABLES
  registry,  \* the live tokens, in registration order
  handles,   \* handles[c]: the live tokens client c holds
  ticks      \* signals delivered so far

regVars == <<registry, handles, ticks>>

RegInit ==
  /\ registry = <<>>
  /\ handles = [c \in Clients |-> {}]
  /\ ticks = 0

Register(c, k) ==
  /\ k \in Tokens \ Range(registry)
  /\ registry' = Append(registry, k)
  /\ handles' = [handles EXCEPT ![c] = @ \cup {k}]
  /\ UNCHANGED ticks

Unregister(c, k) ==
  /\ k \in handles[c]
  /\ \E i \in 1..Len(registry) :
       /\ registry[i] = k
       /\ registry' = RemoveAt(registry, i)
  /\ handles' = [handles EXCEPT ![c] = @ \ {k}]
  /\ UNCHANGED ticks

ResetAll ==
  /\ registry' = <<>>
  /\ handles' = [c \in Clients |-> {}]
  /\ UNCHANGED ticks

Tick ==
  /\ ticks' = ticks + 1
  /\ UNCHANGED <<registry, handles>>

RegNext ==
  \/ \E c \in Clients, k \in Tokens : Register(c, k) \/ Unregister(c, k)
  \/ ResetAll
  \/ Tick

RegSpec == RegInit /\ [][RegNext]_regVars

-----------------------------------------------------------------------------
RegTypeOK ==
  /\ registry \in Seq(Tokens)
  /\ handles \in [Clients -> SUBSET Tokens]
  /\ ticks \in Nat

(* What a client may rely on: each live token is in the registry once (a  *)
(* tick calls it once), the live tokens are exactly the ones the clients  *)
(* hold, and no token is held by two clients.                             *)
RegInv ==
  /\ RegTypeOK
  /\ IsInjective(registry)
  /\ Range(registry) = UNION {handles[c] : c \in Clients}
  /\ \A c, d \in Clients : c # d => handles[c] \cap handles[d] = {}

(* Two sequences that are the parts of s before and after position i     *)
(* concatenate to s without its i-th element.                            *)
LEMMA ConcatAround ==
  ASSUME NEW S, NEW s \in Seq(S), NEW i \in 1..Len(s),
         NEW p \in Seq(S), NEW q \in Seq(S),
         Len(p) = i - 1, Len(q) = Len(s) - i,
         \A m \in 1..i - 1 : p[m] = s[m],
         \A m \in 1..Len(s) - i : q[m] = s[i + m]
  PROVE  /\ p \o q \in Seq(S)
         /\ Len(p \o q) = Len(s) - 1
         /\ \A j \in 1..i - 1 : (p \o q)[j] = s[j]
         /\ \A j \in i..Len(s) - 1 : (p \o q)[j] = s[j + 1]
  <1>1. /\ p \o q \in Seq(S)
        /\ Len(p \o q) = Len(p) + Len(q)
        /\ \A m \in 1..Len(p) + Len(q) :
             (p \o q)[m] = IF m <= Len(p) THEN p[m] ELSE q[m - Len(p)]
    BY ConcatProperties
  <1>2. ASSUME NEW j \in 1..i - 1 PROVE (p \o q)[j] = s[j]
    BY <1>1
  <1>3. ASSUME NEW j \in i..Len(s) - 1 PROVE (p \o q)[j] = s[j + 1]
    <2>1. (p \o q)[j] = q[j - (i - 1)]
      BY <1>1
    <2>2. j - (i - 1) \in 1..Len(s) - i /\ i + (j - (i - 1)) = j + 1
      OBVIOUS
    <2>3. QED
      BY <2>1, <2>2
  <1>4. QED
    BY <1>1, <1>2, <1>3

(* Erasing position i: what list::erase leaves, element by element.      *)
LEMMA RemoveAtElems ==
  ASSUME NEW S, NEW s \in Seq(S), NEW i \in 1..Len(s)
  PROVE  /\ RemoveAt(s, i) \in Seq(S)
         /\ Len(RemoveAt(s, i)) = Len(s) - 1
         /\ \A j \in 1..i - 1 : RemoveAt(s, i)[j] = s[j]
         /\ \A j \in i..Len(s) - 1 : RemoveAt(s, i)[j] = s[j + 1]
  <1>1. \A m \in 1..Len(s) : s[m] \in S
    OBVIOUS
  <1>2. PICK pre : pre = SubSeq(s, 1, i - 1)
    OBVIOUS
  <1>3. PICK post : post = SubSeq(s, i + 1, Len(s))
    OBVIOUS
  <1>4. /\ pre \in Seq(S) /\ Len(pre) = i - 1
        /\ \A m \in 1..i - 1 : pre[m] = s[m]
    BY <1>1, <1>2, SubSeqProperties
  <1>5. /\ post \in Seq(S) /\ Len(post) = Len(s) - i
        /\ \A m \in 1..Len(s) - i : post[m] = s[i + m]
    BY <1>1, <1>3, SubSeqProperties
  <1>6. RemoveAt(s, i) = pre \o post
    BY <1>2, <1>3 DEF RemoveAt
  <1>7. /\ pre \o post \in Seq(S)
        /\ Len(pre \o post) = Len(s) - 1
        /\ \A j \in 1..i - 1 : (pre \o post)[j] = s[j]
        /\ \A j \in i..Len(s) - 1 : (pre \o post)[j] = s[j + 1]
    BY <1>4, <1>5, ConcatAround
  <1>8. QED
    BY <1>6, <1>7, Zenon

(* Erasing the one occurrence of a token from a list without repeats      *)
(* leaves a list without repeats and without that token.                 *)
LEMMA RemoveAtInjective ==
  ASSUME NEW S, NEW s \in Seq(S), NEW i \in 1..Len(s), IsInjective(s)
  PROVE  /\ IsInjective(RemoveAt(s, i))
         /\ Range(RemoveAt(s, i)) = Range(s) \ {s[i]}
  <1>1. PICK r : r = RemoveAt(s, i)
    OBVIOUS
  <1>2. /\ r \in Seq(S) /\ Len(r) = Len(s) - 1
        /\ \A j \in 1..i - 1 : r[j] = s[j]
        /\ \A j \in i..Len(s) - 1 : r[j] = s[j + 1]
    BY <1>1, RemoveAtElems
  <1>3. DOMAIN r = 1..Len(s) - 1 /\ DOMAIN s = 1..Len(s)
    BY <1>2
  \* The position in s of the j-th element of r.
  <1> DEFINE pos(j) == IF j < i THEN j ELSE j + 1
  <1>4. \A j \in 1..Len(s) - 1 : pos(j) \in DOMAIN s \ {i} /\ r[j] = s[pos(j)]
    BY <1>2, <1>3
  <1>5. IsInjective(r)
    <2>1. SUFFICES ASSUME NEW a \in 1..Len(s) - 1, NEW b \in 1..Len(s) - 1,
                          r[a] = r[b]
                   PROVE  a = b
      BY <1>3 DEF IsInjective
    <2>2. s[pos(a)] = s[pos(b)] /\ pos(a) \in DOMAIN s /\ pos(b) \in DOMAIN s
      BY <1>4, <2>1
    <2>3. pos(a) = pos(b)
      BY <2>2, Zenon DEF IsInjective
    <2>4. QED
      BY <2>3
  <1>6. Range(r) \subseteq Range(s) \ {s[i]}
    <2>1. SUFFICES ASSUME NEW j \in 1..Len(s) - 1 PROVE r[j] \in Range(s) \ {s[i]}
      BY <1>3 DEF Range
    <2>2. pos(j) \in DOMAIN s \ {i} /\ r[j] = s[pos(j)] /\ i \in DOMAIN s
      BY <1>3, <1>4
    <2>3. r[j] # s[i]
      BY <2>2, Zenon DEF IsInjective
    <2>4. QED
      BY <2>2, <2>3 DEF Range
  <1>7. Range(s) \ {s[i]} \subseteq Range(r)
    <2>1. SUFFICES ASSUME NEW j \in 1..Len(s), j # i PROVE s[j] \in Range(r)
      BY <1>3 DEF Range
    <2>2. PICK k \in 1..Len(s) - 1 : r[k] = s[j]
      <3>1. CASE j < i
        BY <1>2, <3>1
      <3>2. CASE j > i
        <4>1. j - 1 \in i..Len(s) - 1 /\ (j - 1) + 1 = j
          BY <3>2
        <4>2. r[j - 1] = s[j]
          BY <1>2, <4>1
        <4>3. QED
          BY <4>1, <4>2
      <3>3. QED
        BY <2>1, <3>1, <3>2
    <2>3. QED
      BY <1>3, <2>2 DEF Range
  <1>8. QED
    BY <1>1, <1>5, <1>6, <1>7

-----------------------------------------------------------------------------
(* The registry's invariant, one lemma per operation.                     *)

LEMMA InitRegInv == RegInit => RegInv
  BY DEF RegInit, RegInv, RegTypeOK, IsInjective, Range

\* Appending a token that is not in the list.
LEMMA AppendFresh ==
  ASSUME NEW S, NEW s \in Seq(S), NEW k \in S, k \notin Range(s), IsInjective(s)
  PROVE  /\ Append(s, k) \in Seq(S)
         /\ IsInjective(Append(s, k))
         /\ Range(Append(s, k)) = Range(s) \cup {k}
  <1>1. /\ Append(s, k) \in Seq(S)
        /\ Len(Append(s, k)) = Len(s) + 1
        /\ \A m \in 1..Len(s) : Append(s, k)[m] = s[m]
        /\ Append(s, k)[Len(s) + 1] = k
    BY AppendProperties
  <1>2. DOMAIN Append(s, k) = 1..Len(s) + 1 /\ DOMAIN s = 1..Len(s)
    BY <1>1
  <1>3. IsInjective(Append(s, k))
    BY <1>1, <1>2 DEF IsInjective, Range
  <1>4. Range(Append(s, k)) = Range(s) \cup {k}
    BY <1>1, <1>2 DEF Range
  <1>5. QED
    BY <1>1, <1>3, <1>4

LEMMA RegisterRegInv ==
  ASSUME RegInv, NEW c \in Clients, NEW k \in Tokens, Register(c, k)
  PROVE  RegInv'
  <1> USE DEF Register
  <1>1. /\ registry' \in Seq(Tokens)
        /\ IsInjective(registry')
        /\ Range(registry') = Range(registry) \cup {k}
    BY AppendFresh DEF RegInv, RegTypeOK
  <1>2. \A d \in Clients : k \notin handles[d]
    BY DEF RegInv
  <1>3. UNION {handles'[d] : d \in Clients} = (UNION {handles[d] : d \in Clients}) \cup {k}
    BY DEF RegInv, RegTypeOK
  <1>4. \A d, e \in Clients : d # e => handles'[d] \cap handles'[e] = {}
    BY <1>2 DEF RegInv, RegTypeOK
  <1>5. QED
    BY <1>1, <1>3, <1>4 DEF RegInv, RegTypeOK

LEMMA UnregisterRegInv ==
  ASSUME RegInv, NEW c \in Clients, NEW k \in Tokens, Unregister(c, k)
  PROVE  RegInv'
  <1> USE DEF Unregister
  <1>1. PICK i \in 1..Len(registry) : registry[i] = k /\ registry' = RemoveAt(registry, i)
    OBVIOUS
  <1>2. /\ registry' \in Seq(Tokens)
        /\ IsInjective(registry')
        /\ Range(registry') = Range(registry) \ {k}
    BY <1>1, RemoveAtElems, RemoveAtInjective DEF RegInv, RegTypeOK
  <1>3. \A d \in Clients : d # c => k \notin handles[d]
    BY DEF RegInv
  <1>4. UNION {handles'[d] : d \in Clients} = (UNION {handles[d] : d \in Clients}) \ {k}
    BY <1>3 DEF RegInv, RegTypeOK
  <1>5. \A d, e \in Clients : d # e => handles'[d] \cap handles'[e] = {}
    BY DEF RegInv, RegTypeOK
  <1>6. QED
    BY <1>2, <1>4, <1>5 DEF RegInv, RegTypeOK

LEMMA NextRegInv ==
  ASSUME RegInv, [RegNext]_regVars
  PROVE  RegInv'
  <1>1. CASE \E c \in Clients, k \in Tokens : Register(c, k) \/ Unregister(c, k)
    BY <1>1, RegisterRegInv, UnregisterRegInv
  <1>2. CASE ResetAll
    BY <1>2 DEF ResetAll, RegInv, RegTypeOK, IsInjective, Range
  <1>3. CASE Tick
    BY <1>3 DEF Tick, RegInv, RegTypeOK
  <1>4. CASE UNCHANGED regVars
    BY <1>4 DEF regVars, RegInv, RegTypeOK
  <1>5. QED
    BY <1>1, <1>2, <1>3, <1>4 DEF RegNext

(* In every behaviour of the registry each live token is listed once, is  *)
(* held by exactly one client, and every held token is live.             *)
THEOREM RegInvariant == RegSpec => []RegInv
  BY InitRegInv, NextRegInv, PTL DEF RegSpec

=============================================================================
