--------------------------- MODULE ServerPartsProofs ---------------------------
(****************************************************************************)
(* The three details of the server in MCServerParts, for any clients,       *)
(* descriptors, threads and lengths.                                        *)
(*                                                                          *)
(* Replies: an answer reaches its asker and a client finds a descriptor as  *)
(* long as the refused connections leave room.                              *)
(*                                                                          *)
(* Messages: a read() of whole lines is routed by its first line, no byte   *)
(* of an earlier one is sent again, and two lines fit in pArray.  What the  *)
(* calls of strtok() find is a recursive function; its facts are shown by   *)
(* the least call they would fail for.                                      *)
(*                                                                          *)
(* SharedStrtok: the static pointer of strtok() harms no message that no    *)
(* other thread crossed, and main has a password to compare.                *)
(*                                                                          *)
(* Each is shown of the module itself; the run of MCServerParts checks the  *)
(* same, as PartsAsAlone shows.                                             *)
(****************************************************************************)
EXTENDS MCServerParts, FiniteSetTheorems, SequenceTheorems, WellFoundedInduction, TLAPS

\* A descriptor is below what sessions and refused connections have taken.
Bound == FIRST + Cardinality(refused) + MAX_CLNT

Low ==
    /\ \A f \in online : f < Bound
    /\ asker # Lost => asker < Bound /\ answered = Char(asker)
    /\ asker = Lost => answered = Lost
    /\ emfile => LIMIT <= Bound

ReplyInv == TypeOK /\ Cardinality(online) <= MAX_CLNT /\ Low

LEMMA FdsFinite == IsFiniteSet(Fds)
  BY FS_Interval, RepliesAssumption DEF Fds

\* Sets of descriptors are finite.
LEMMA Finite ==
  ASSUME NEW D, D \subseteq Fds
  PROVE  IsFiniteSet(D) /\ Cardinality(D) \in Nat
  BY FdsFinite, FS_Subset, FS_CardinalityType

\* Descriptors below f are all in use if f is the lowest free one.
LEMMA LowestIsLow ==
  ASSUME TypeOK, NEW f \in FIRST .. LIMIT, FIRST .. f - 1 \subseteq online \cup refused
  PROVE  f - FIRST <= Cardinality(online) + Cardinality(refused)
<1>1. IsFiniteSet(online) /\ IsFiniteSet(refused) /\ IsFiniteSet(online \cup refused)
  BY Finite, FS_Union DEF TypeOK
<1>2. /\ Cardinality(online) \in Nat /\ Cardinality(refused) \in Nat
      /\ Cardinality(online \cap refused) \in Nat
  <2>1. IsFiniteSet(online \cap refused)
    BY <1>1, FS_Intersection
  <2>. QED BY <1>1, <2>1, FS_CardinalityType
<1>3. Cardinality(online \cup refused) <= Cardinality(online) + Cardinality(refused)
  <2>1. Cardinality(online \cup refused)
            = Cardinality(online) + Cardinality(refused) - Cardinality(online \cap refused)
    BY <1>1, FS_Union
  <2>. QED BY <1>2, <2>1
<1>4. Cardinality(FIRST .. f - 1) = f - FIRST
  <2>1. FIRST \in Int /\ f - 1 \in Int /\ f >= FIRST
    BY RepliesAssumption
  <2>2. Cardinality(FIRST .. f - 1) = IF FIRST > f - 1 THEN 0 ELSE (f - 1) - FIRST + 1
    BY <2>1, FS_Interval
  <2>. QED BY <2>1, <2>2
<1>5. /\ Cardinality(FIRST .. f - 1) <= Cardinality(online \cup refused)
      /\ Cardinality(online \cup refused) \in Nat
  BY <1>1, FS_Subset, FS_CardinalityType
<1>. QED BY <1>2, <1>3, <1>4, <1>5, RepliesAssumption

LEMMA ReplyInvInit == Init => ReplyInv
<1>. SUFFICES ASSUME Init PROVE ReplyInv
  OBVIOUS
<1>1. TypeOK
  <2>1. answered \in Int
    BY DEF Init, Lost
  <2>2. emfile \in BOOLEAN
    BY DEF Init
  <2>. QED BY <2>1, <2>2 DEF Init, TypeOK
<1>2. Cardinality(online) <= MAX_CLNT
  BY FS_EmptySet, RepliesAssumption DEF Init
<1>3. Low
  BY DEF Init, Low
<1>. QED BY <1>1, <1>2, <1>3 DEF ReplyInv

\* A connection that gets a descriptor, or none.
LEMMA AcceptStep ==
  ASSUME ReplyInv, Accept
  PROVE  ReplyInv'
<1>. USE RepliesAssumption
<1>1. Cardinality(online) \in Nat /\ Cardinality(refused) \in Nat
  BY Finite DEF ReplyInv, TypeOK
<1>2. CASE Free = {}
  <2>1. UNCHANGED <<online, refused, asker, answered>> /\ emfile' = TRUE
    BY <1>2 DEF Accept
  <2>2. FIRST .. LIMIT - 1 \subseteq online \cup refused
    BY <1>2 DEF Free, Fds
  <2>3. LIMIT - FIRST <= Cardinality(online) + Cardinality(refused)
    BY <2>2, LowestIsLow DEF ReplyInv
  <2>4. LIMIT <= Bound
    BY <1>1, <2>3 DEF Bound, ReplyInv
  <2>. QED BY <2>1, <2>4 DEF ReplyInv, TypeOK, Low, Bound
<1>3. CASE Free # {}
  <2>1. PICK f \in Free :
          /\ IsLowest(f)
          /\ \/ Cardinality(online) < MAX_CLNT /\ online' = online \cup {f} /\ refused' = refused
             \/ refused' = refused \cup {f} /\ online' = online
    BY <1>3 DEF Accept
  <2>2. f \in Fds /\ f \in Int /\ f \notin online /\ f \notin refused /\ f \in FIRST .. LIMIT
    BY <2>1 DEF Free, Fds
  <2>3. FIRST .. f - 1 \subseteq online \cup refused
    BY <2>1, <2>2 DEF IsLowest, Free, Fds
  <2>4. f - FIRST <= Cardinality(online) + Cardinality(refused)
    BY <2>2, <2>3, LowestIsLow DEF ReplyInv
  <2>5. emfile' = FALSE /\ asker' = asker /\ answered' = answered
    BY <1>3 DEF Accept
  <2>6. CASE Cardinality(online) < MAX_CLNT /\ online' = online \cup {f} /\ refused' = refused
    <3>1. Cardinality(online') = Cardinality(online) + 1
      BY <2>2, <2>6, Finite, FS_AddElement DEF ReplyInv, TypeOK
    <3>2. TypeOK' /\ Cardinality(online') <= MAX_CLNT
      <4>1. TypeOK'
        BY <2>2, <2>5, <2>6 DEF ReplyInv, TypeOK
      <4>. QED BY <1>1, <2>6, <3>1, <4>1
    <3>3. f < Bound
      BY <1>1, <2>2, <2>4, <2>6 DEF Bound
    <3>. QED BY <2>5, <2>6, <3>2, <3>3 DEF ReplyInv, Low, Bound
  <2>7. CASE refused' = refused \cup {f} /\ online' = online
    <3>1. Cardinality(refused') = Cardinality(refused) + 1
      BY <2>2, <2>7, Finite, FS_AddElement DEF ReplyInv, TypeOK
    <3>2. TypeOK' /\ Cardinality(online') <= MAX_CLNT
      BY <2>2, <2>5, <2>7 DEF ReplyInv, TypeOK
    <3>3. Bound' = Bound + 1 /\ Bound \in Int
      BY <1>1, <3>1 DEF Bound
    <3>4. \A g \in online' : g < Bound'
      <4>1. \A g \in online : g \in Int /\ g < Bound
        BY DEF ReplyInv, TypeOK, Low, Fds
      <4>. QED BY <2>7, <3>3, <4>1
    <3>5. asker' # Lost => asker' < Bound' /\ answered' = Char(asker')
      <4>1. asker # Lost => asker \in Int /\ asker < Bound /\ answered = Char(asker)
        BY DEF ReplyInv, TypeOK, Low, Fds
      <4>. QED BY <2>5, <3>3, <4>1
    <3>6. (asker' = Lost => answered' = Lost) /\ ~ emfile'
      BY <2>5 DEF ReplyInv, Low
    <3>. QED BY <3>2, <3>4, <3>5, <3>6 DEF ReplyInv, Low
  <2>. QED BY <2>1, <2>6, <2>7
<1>. QED BY <1>2, <1>3

LEMMA ReplyInvStep == ReplyInv /\ [Next]_vars => ReplyInv'
<1>. SUFFICES ASSUME ReplyInv, [Next]_vars PROVE ReplyInv'
  OBVIOUS
<1>. USE RepliesAssumption
<1>1. CASE Accept
  BY <1>1, AcceptStep
<1>2. ASSUME NEW f \in Fds, Leave(f) PROVE ReplyInv'
  <2>1. /\ online' = online \ {f} /\ f \in online
        /\ UNCHANGED <<refused, asker, answered, emfile>>
    BY <1>2 DEF Leave
  <2>2. Cardinality(online') <= MAX_CLNT
    <3>1. Cardinality(online') = Cardinality(online) - 1 /\ Cardinality(online) \in Nat
      BY <2>1, Finite, FS_RemoveElement DEF ReplyInv, TypeOK
    <3>. QED BY <3>1 DEF ReplyInv
  <2>. QED BY <2>1, <2>2 DEF ReplyInv, TypeOK, Low, Bound
<1>3. ASSUME NEW f \in Fds, Ask(f) PROVE ReplyInv'
  <2>1. Char(f) \in Int
    BY DEF Char, Fds
  <2>2. f # Lost
    BY DEF Fds, Lost
  <2>. QED BY <1>3, <2>1, <2>2 DEF Ask, ReplyInv, TypeOK, Low, Bound
<1>4. CASE UNCHANGED vars
  BY <1>4 DEF vars, ReplyInv, TypeOK, Low, Bound
<1>. QED BY <1>1, <1>2, <1>3, <1>4 DEF Next

\* Every reachable state satisfies ReplyInv: sessions and answered clients have descriptors
\* below what the refused connections leave.
THEOREM TypeCorrect == Spec => []TypeOK
<1>1. ReplyInv => TypeOK
  BY DEF ReplyInv
<1>. QED BY <1>1, ReplyInvInit, ReplyInvStep, PTL DEF Spec

\* IDLIST and GETTIME are answered to whom they are from, as long as the connections that
\* were refused leave room below the values of a char.
THEOREM AnswersAskerAlways == Spec => []AnswersAsker
<1>1. ReplyInv => AnswersAsker
  <2>. SUFFICES ASSUME ReplyInv, FIRST + Cardinality(refused) + MAX_CLNT <= Room
                PROVE  answered = asker
    BY DEF AnswersAsker
  <2>1. CASE asker = Lost
    BY <2>1 DEF ReplyInv, Low
  <2>2. CASE asker # Lost
    <3>1. asker \in Nat /\ asker < Room /\ answered = Char(asker)
      <4>1. asker \in Nat
        BY <2>2, RepliesAssumption DEF ReplyInv, TypeOK, Fds
      <4>2. Cardinality(refused) \in Nat
        BY Finite DEF ReplyInv, TypeOK
      <4>. QED BY <2>2, <4>1, <4>2, RepliesAssumption DEF ReplyInv, Low, Bound, Room
    <3>2. asker < CHARS /\ (Signed => asker < CHARS \div 2)
      BY <3>1, RepliesAssumption DEF Room
    <3>3. asker % CHARS = asker
      BY <3>1, <3>2, RepliesAssumption
    <3>. QED BY <3>1, <3>2, <3>3, RepliesAssumption DEF Char
  <2>. QED BY <2>1, <2>2
<1>. QED BY <1>1, ReplyInvInit, ReplyInvStep, PTL DEF Spec

\* accept() finds a descriptor as long as the connections that were refused leave one.
THEOREM FindsDescriptorAlways == Spec => []FindsDescriptor
<1>1. ReplyInv => FindsDescriptor
  <2>1. ReplyInv => Cardinality(refused) \in Nat
    BY Finite DEF ReplyInv, TypeOK
  <2>. QED BY <2>1, RepliesAssumption DEF ReplyInv, Low, Bound, FindsDescriptor
<1>. QED BY <1>1, ReplyInvInit, ReplyInvStep, PTL DEF Spec

-----------------------------------------------------------------------------
(* Messages: what the calls of strtok() find. *)

\* A set of naturals has a least one: what is not so for every n fails for a first n.
LEMMA Least == ASSUME NEW T, T \subseteq Nat, T # {} PROVE \E n \in T : \A m \in T : n <= m
<1>1. IsWellFoundedOn(OpToRel(<, Nat), Nat)
  BY NatLessThanWellFounded
<1>2. PICK n \in T : \A m \in T : ~ (<<m, n>> \in OpToRel(<, Nat))
  BY <1>1, WFMin
<1>3. \A m \in T : ~ (m < n)
  BY <1>2 DEF OpToRel
<1>. QED BY <1>3

LEMMA MinIs ==
  ASSUME NEW T, T \subseteq Nat, T # {}
  PROVE  M!Min(T) \in T /\ \A m \in T : M!Min(T) <= m
  BY Least DEF M!Min

Offsets == 0 .. SIZE
Token   == [start : Offsets, end : Offsets]

\* What msg is while strtok() runs over it.
IsBuffer(bytes) == bytes \in [Offsets -> Nat] /\ bytes[SIZE] = M!NUL

\* SkipFrom and EndFrom find the first place they look for.
LEMMA SkipIs ==
  ASSUME M!MessagesConstants, NEW bytes, IsBuffer(bytes), NEW o \in Offsets, NEW d
  PROVE  /\ M!SkipFrom(bytes, o, d) \in o .. SIZE
         /\ ~ M!IsOneOf(bytes, M!SkipFrom(bytes, o, d), d)
         /\ \A p \in o .. M!SkipFrom(bytes, o, d) - 1 : M!IsOneOf(bytes, p, d)
<1>. DEFINE T == {p \in o .. SIZE : ~ M!IsOneOf(bytes, p, d)}
<1>1. T \subseteq Nat
  BY DEF Offsets
<1>2. SIZE \in T
  BY DEF Offsets, IsBuffer, M!IsOneOf, M!MessagesConstants
<1>3. M!Min(T) \in T /\ \A m \in T : M!Min(T) <= m
  <2>. HIDE DEF T
  <2>. QED BY <1>1, <1>2, MinIs
<1>4. M!SkipFrom(bytes, o, d) = M!Min(T)
  BY DEF M!SkipFrom
<1>5. \A p \in o .. M!Min(T) - 1 : p \in o .. SIZE /\ ~ (M!Min(T) <= p)
  BY <1>3 DEF Offsets, M!MessagesConstants
<1>. QED BY <1>3, <1>4, <1>5

LEMMA EndIs ==
  ASSUME M!MessagesConstants, NEW bytes, IsBuffer(bytes), NEW o \in Offsets, NEW d
  PROVE  /\ M!EndFrom(bytes, o, d) \in o .. SIZE
         /\ bytes[M!EndFrom(bytes, o, d)] = M!NUL \/ M!IsOneOf(bytes, M!EndFrom(bytes, o, d), d)
         /\ \A p \in o .. M!EndFrom(bytes, o, d) - 1 : bytes[p] # M!NUL /\ ~ M!IsOneOf(bytes, p, d)
<1>. DEFINE T == {p \in o .. SIZE : bytes[p] = M!NUL \/ M!IsOneOf(bytes, p, d)}
<1>1. T \subseteq Nat
  BY DEF Offsets
<1>2. SIZE \in T
  BY DEF Offsets, IsBuffer, M!MessagesConstants
<1>3. M!Min(T) \in T /\ \A m \in T : M!Min(T) <= m
  <2>. HIDE DEF T
  <2>. QED BY <1>1, <1>2, MinIs
<1>4. M!EndFrom(bytes, o, d) = M!Min(T)
  BY DEF M!EndFrom
<1>5. \A p \in o .. M!Min(T) - 1 : p \in o .. SIZE /\ ~ (M!Min(T) <= p)
  BY <1>3 DEF Offsets, M!MessagesConstants
<1>. QED BY <1>3, <1>4, <1>5

LEMMA TokenType ==
  ASSUME M!MessagesConstants, NEW bytes, IsBuffer(bytes), NEW o \in Offsets, NEW k
  PROVE  M!TokenFrom(bytes, o, k) \in Token
<1>. DEFINE s == M!SkipFrom(bytes, o, M!Delims(k))
<1>1. s \in Offsets
  BY SkipIs DEF Offsets, M!MessagesConstants
<1>2. M!EndFrom(bytes, s, M!Delims(k)) \in Offsets
  <2>. HIDE DEF s
  <2>. QED BY <1>1, EndIs DEF Offsets, M!MessagesConstants
<1>. QED BY <1>1, <1>2 DEF M!TokenFrom, Token

LEMMA ResumeType ==
  ASSUME M!MessagesConstants, NEW bytes, IsBuffer(bytes), NEW o \in Offsets
  PROVE  M!Resume(bytes, o) \in Offsets /\ M!Resume(bytes, o) >= o
  BY DEF M!Resume, IsBuffer, Offsets, M!MessagesConstants

-----------------------------------------------------------------------------
(* Tokens. *)

\* Where call k begins, with the tokens before it.
Begin(bytes, t, k) == IF k = 1 THEN 0 ELSE M!Resume(bytes, t[k - 1].end)

Chain(bytes, t) == \A k \in 1 .. Len(t) : t[k] = M!TokenFrom(bytes, Begin(bytes, t, k), k - 1)

Found(bytes, g, k) == IF k = 0 THEN <<>> ELSE Append(g[k - 1], M!TokenFrom(bytes, Begin(bytes, g[k - 1], k), k - 1))

Calls(bytes, g, n) == g = [k \in 0 .. n |-> Found(bytes, g, k)]

LEMMA CallsExist ==
  ASSUME NEW bytes
  PROVE  \A n \in Nat : \E g : Calls(bytes, g, n)
<1>. DEFINE T == {n \in Nat : ~ \E g : Calls(bytes, g, n)}
<1>. SUFFICES ASSUME T # {} PROVE FALSE
  OBVIOUS
<1>1. PICK n \in T : \A m \in T : n <= m
  <2>1. T \subseteq Nat
    OBVIOUS
  <2>. HIDE DEF T
  <2>. QED BY <2>1, Least
<1>2. n \in Nat /\ n # 0
  <2>. DEFINE z == [k \in 0 .. 0 |-> <<>>]
  <2>1. \A k \in 0 .. 0 : Found(bytes, z, k) = <<>>
    BY DEF Found
  <2>2. Calls(bytes, z, 0)
    BY <2>1 DEF Calls
  <2>. HIDE DEF z
  <2>3. 0 \notin T
    BY <2>2
  <2>. QED BY <2>3
<1>3. n - 1 \in Nat /\ ~ (n <= n - 1)
  BY <1>2
<1>4. PICK g : Calls(bytes, g, n - 1)
  <2>1. n - 1 \notin T
    <3>. HIDE DEF T
    <3>. QED BY <1>1, <1>3
  <2>. QED BY <1>3, <2>1
<1>. DEFINE h == [k \in 0 .. n |-> IF k = n THEN Found(bytes, g, n) ELSE g[k]]
<1>5. \A k \in 0 .. n : k # n => k \in 0 .. n - 1 /\ g[k] = Found(bytes, g, k)
  <2>1. \A k \in 0 .. n - 1 : g[k] = Found(bytes, g, k)
    BY <1>4 DEF Calls
  <2>. QED BY <1>2, <2>1
<1>6. \A k \in 0 .. n : k # 0 => h[k - 1] = g[k - 1]
  BY <1>2
<1>7. \A k \in 0 .. n : Found(bytes, h, k) = Found(bytes, g, k)
  <2>. HIDE DEF h
  <2>. QED BY <1>6 DEF Found
<1>8. \A k \in 0 .. n : h[k] = Found(bytes, h, k)
  <2>1. \A k \in 0 .. n : h[k] = Found(bytes, g, k)
    BY <1>5
  <2>. QED BY <1>7, <2>1
<1>9. Calls(bytes, h, n)
  <2>1. h = [k \in 0 .. n |-> h[k]]
    OBVIOUS
  <2>. HIDE DEF h
  <2>. QED BY <1>8, <2>1 DEF Calls
<1>10. n \notin T
  <2>. HIDE DEF h
  <2>. QED BY <1>9
<1>. QED BY <1>1, <1>10

\* Each call adds its token to those before it.
LEMMA CallsAre ==
  ASSUME M!MessagesConstants, NEW bytes, IsBuffer(bytes), NEW N \in Nat, NEW g, Calls(bytes, g, N)
  PROVE  \A n \in 0 .. N : g[n] \in Seq(Token) /\ Len(g[n]) = n /\ Chain(bytes, g[n])
<1>. DEFINE Good(n) == g[n] \in Seq(Token) /\ Len(g[n]) = n /\ Chain(bytes, g[n])
            T == {n \in 0 .. N : ~ Good(n)}
<1>. SUFFICES ASSUME T # {} PROVE FALSE
  OBVIOUS
<1>1. PICK n \in T : \A m \in T : n <= m
  <2>1. T \subseteq Nat
    OBVIOUS
  <2>. HIDE DEF T
  <2>. QED BY <2>1, Least
<1>2. n \in 0 .. N /\ g[n] = Found(bytes, g, n)
  BY DEF Calls
<1>3. n # 0
  <2>1. 0 \in 0 .. N
    OBVIOUS
  <2>2. g[0] = <<>>
    BY <2>1 DEF Calls, Found
  <2>3. Good(0)
    BY <2>2 DEF Chain
  <2>. HIDE DEF Good
  <2>. QED BY <2>3
<1>4. n - 1 \in 0 .. N /\ ~ (n <= n - 1)
  BY <1>2, <1>3
<1>5. Good(n - 1)
  <2>1. n - 1 \notin T
    <3>. HIDE DEF T
    <3>. QED BY <1>1, <1>4
  <2>. HIDE DEF Good
  <2>. QED BY <1>4, <2>1
<1>. DEFINE f == g[n - 1]
            b == Begin(bytes, f, n)
            x == M!TokenFrom(bytes, b, n - 1)
<1>6. f \in Seq(Token) /\ Len(f) = n - 1 /\ \A k \in 1 .. n - 1 : f[k] \in Token
  BY <1>5
<1>7. b \in Offsets
  <2>. HIDE DEF f
  <2>1. CASE n = 1
    BY <2>1 DEF Begin, Offsets, M!MessagesConstants
  <2>2. CASE n # 1
    <3>1. f[n - 1] \in Token
      BY <1>2, <1>3, <1>6, <2>2
    <3>2. f[n - 1].end \in Offsets
      BY <3>1 DEF Token
    <3>. QED BY <2>2, <3>2, ResumeType DEF Begin
  <2>. QED BY <2>1, <2>2
<1>8. x \in Token
  <2>. HIDE DEF b
  <2>. QED BY <1>7, TokenType
<1>9. g[n] = Append(f, x)
  BY <1>2, <1>3 DEF Found
<1>10. Chain(bytes, f)
  BY <1>5
<1>11. g[n] \in Seq(Token) /\ Len(g[n]) = n /\ g[n][n] = x /\ \A k \in 1 .. n - 1 : g[n][k] = f[k]
  <2>. HIDE DEF f, x
  <2>. QED BY <1>2, <1>3, <1>6, <1>8, <1>9
<1>12. ASSUME NEW k \in 1 .. n PROVE Begin(bytes, g[n], k) = Begin(bytes, f, k)
  <2>. HIDE DEF f, x
  <2>1. k # 1 => k - 1 \in 1 .. n - 1
    BY <1>2
  <2>. QED BY <1>11, <2>1 DEF Begin
<1>13. ASSUME NEW k \in 1 .. n PROVE g[n][k] = M!TokenFrom(bytes, Begin(bytes, g[n], k), k - 1)
  <2>1. CASE k = n
    BY <1>11, <1>12, <2>1
  <2>2. CASE k # n
    <3>1. k \in 1 .. n - 1 /\ k \in 1 .. Len(f)
      BY <1>2, <1>6, <2>2
    <3>2. f[k] = M!TokenFrom(bytes, Begin(bytes, f, k), k - 1)
      <4>. HIDE DEF f
      <4>. QED BY <1>10, <3>1 DEF Chain
    <3>. QED BY <1>11, <1>12, <3>1, <3>2
  <2>. QED BY <2>1, <2>2
<1>14. Good(n)
  <2>. HIDE DEF f, x
  <2>. QED BY <1>11, <1>13 DEF Chain
<1>. QED BY <1>1, <1>14

LEMMA TokensAre ==
  ASSUME M!MessagesConstants, NEW bytes, IsBuffer(bytes)
  PROVE  M!Tokens(bytes) \in Seq(Token) /\ Len(M!Tokens(bytes)) = ARR_CNT + 1 /\ Chain(bytes, M!Tokens(bytes))
<1>. DEFINE N == ARR_CNT + 1
            Fix(h) == h = [k \in 0 .. N |->
                              IF k = 0 THEN <<>>
                              ELSE Append(h[k - 1], M!TokenFrom(bytes, IF k = 1 THEN 0 ELSE M!Resume(bytes, h[k - 1][k - 1].end), k - 1))]
            F == CHOOSE h : Fix(h)
<1>1. N \in Nat
  BY DEF M!MessagesConstants
<1>2. \A h : Fix(h) <=> Calls(bytes, h, N)
  BY DEF Calls, Found, Begin
<1>3. Fix(F)
  <2>1. \E h : Fix(h)
    BY <1>1, <1>2, CallsExist
  <2>. HIDE DEF Fix
  <2>. QED BY <2>1
<1>4. Calls(bytes, F, N)
  <2>. HIDE DEF Fix
  <2>. QED BY <1>2, <1>3
<1>5. M!Tokens(bytes) = F[N]
  BY DEF M!Tokens
<1>6. F[N] \in Seq(Token) /\ Len(F[N]) = N /\ Chain(bytes, F[N])
  <2>1. N \in 0 .. N
    BY <1>1
  <2>. HIDE DEF F, N
  <2>. QED BY <1>1, <1>4, <2>1, CallsAre
<1>. QED BY <1>5, <1>6

-----------------------------------------------------------------------------
(* What a read() leaves in msg and pArray. *)

LEMMA StringIs ==
  ASSUME M!MessagesConstants, NEW bytes, IsBuffer(bytes), NEW o \in Offsets
  PROVE  /\ M!StringAt(bytes, o) \in Seq(Nat)
         /\ Len(M!StringAt(bytes, o)) = M!EndFrom(bytes, o, {}) - o
         /\ \A j \in 1 .. M!EndFrom(bytes, o, {}) - o : M!StringAt(bytes, o)[j] = bytes[o + j - 1] /\ bytes[o + j - 1] # M!NUL
<1>. DEFINE all == [p \in 1 .. SIZE + 1 |-> bytes[p - 1]]
            e == M!EndFrom(bytes, o, {})
<1>1. o \in Nat /\ e \in o .. SIZE /\ \A p \in o .. e - 1 : bytes[p] # M!NUL
  BY EndIs DEF Offsets
<1>2. all \in Seq(Nat) /\ Len(all) = SIZE + 1
  BY DEF IsBuffer, Offsets, M!MessagesConstants
<1>3. M!StringAt(bytes, o) = SubSeq(all, o + 1, e)
  BY DEF M!StringAt
<1>4. /\ SubSeq(all, o + 1, e) \in Seq(Nat)
      /\ Len(SubSeq(all, o + 1, e)) = IF o + 1 <= e THEN e - (o + 1) + 1 ELSE 0
      /\ \A j \in 1 .. e - (o + 1) + 1 : SubSeq(all, o + 1, e)[j] = all[(o + 1) + j - 1]
  <2>1. o + 1 \in 1 .. Len(all) + 1 /\ e \in o .. Len(all)
    BY <1>1, <1>2 DEF M!MessagesConstants
  <2>2. o + 1 \in Int /\ e \in Int
    BY <1>1
  <2>3. \A k \in o + 1 .. e : all[k] \in Nat
    <3>1. \A k \in o + 1 .. e : k \in 1 .. SIZE + 1
      <4>. HIDE DEF e
      <4>. QED BY <1>1 DEF M!MessagesConstants
    <3>. HIDE DEF all, e
    <3>. QED BY <1>2, <3>1
  <2>. HIDE DEF all, e
  <2>. QED BY <2>2, <2>3, SubSeqProperties
<1>5. ASSUME NEW j \in 1 .. e - o
      PROVE  all[o + 1 + j - 1] = bytes[o + j - 1] /\ bytes[o + j - 1] # M!NUL
  <2>1. o + j \in 1 .. SIZE + 1 /\ o + j - 1 \in o .. e - 1 /\ o + 1 + j - 1 = o + j
    BY <1>1 DEF M!MessagesConstants
  <2>. QED BY <1>1, <2>1
<1>6. e - (o + 1) + 1 = e - o /\ Len(SubSeq(all, o + 1, e)) = e - o
  <2>. HIDE DEF e, all
  <2>. QED BY <1>1, <1>4
<1>. HIDE DEF all
<1>. QED BY <1>3, <1>4, <1>5, <1>6

LEMMA FilledIs ==
  ASSUME M!MessagesConstants, last \in Nat, NEW n \in 1 .. SIZE
  PROVE  /\ IsBuffer(M!Filled(n))
         /\ \A o \in Offsets : M!Filled(n)[o] = IF o < n THEN last + 1 + o ELSE M!NUL
<1>. DEFINE f == [o \in 0 .. SIZE |-> IF o < n THEN last + 1 + o ELSE M!NUL]
<1>1. f \in [Offsets -> Nat]
  BY DEF Offsets, M!NUL
<1>2. f[SIZE] = M!NUL
  BY DEF M!MessagesConstants
<1>. QED BY <1>1, <1>2 DEF M!Filled, IsBuffer, Offsets

LEMMA CutIs ==
  ASSUME M!MessagesConstants, NEW bytes, IsBuffer(bytes), NEW ends
  PROVE  /\ IsBuffer(M!Cut(bytes, ends))
         /\ \A o \in Offsets : M!Cut(bytes, ends)[o] = IF o \in ends THEN M!NUL ELSE bytes[o]
  BY DEF M!Cut, IsBuffer, Offsets, M!NUL, M!MessagesConstants

\* A pointer is null or into msg, msg has bytes of the last read() only, and a thread
\* without an address has sent nothing.
MsgInv ==
    /\ first \in Nat /\ last \in Nat
    /\ IsBuffer(msg) /\ \A o \in Offsets : msg[o] = M!NUL \/ first <= msg[o]
    /\ pArray \in [0 .. ARR_CNT -> Offsets \cup {M!Null}]
    /\ pArray[0] = M!Null => to = <<>> /\ text = <<>>
    /\ M!NothingOld

LEMMA MsgInit == M!MessagesConstants /\ M!Init => MsgInv
<1>. SUFFICES ASSUME M!MessagesConstants, M!Init PROVE MsgInv
  OBVIOUS
<1>1. IsBuffer(msg) /\ \A o \in Offsets : msg[o] = M!NUL
  BY DEF M!Init, IsBuffer, Offsets, M!NUL, M!MessagesConstants
<1>2. pArray \in [0 .. ARR_CNT -> Offsets \cup {M!Null}]
  BY DEF M!Init
<1>3. M!NothingOld
  BY DEF M!Init, M!NothingOld, M!ToSet
<1>. QED BY <1>1, <1>2, <1>3 DEF M!Init, MsgInv

\* What Receive leaves.
LEMMA ReceiveIs ==
  ASSUME M!MessagesConstants, MsgInv, NEW n \in 1 .. SIZE, M!Receive(n)
  PROVE  /\ first' = last + 1 /\ last' = last + n
         /\ IsBuffer(msg') /\ \A o \in Offsets : msg'[o] = M!NUL \/ first' <= msg'[o]
         /\ pArray' \in [0 .. ARR_CNT -> Offsets \cup {M!Null}]
         /\ pArray'[0] = M!Null => pArray[0] = M!Null
<1>. DEFINE bytes == M!Filled(n)
            found == M!Tokens(bytes)
            stored == M!Stored(found)
            ends == {found[k + 1].end : k \in stored}
<1>1. /\ first' = last + 1 /\ last' = last + n
      /\ msg' = M!Cut(bytes, ends)
      /\ pArray' = [k \in 0 .. ARR_CNT |-> IF k \in stored THEN found[k + 1].start ELSE pArray[k]]
  BY DEF M!Receive
<1>2. IsBuffer(bytes) /\ \A o \in Offsets : bytes[o] = M!NUL \/ last + 1 <= bytes[o]
  <2>1. \A o \in Offsets : last + 1 <= last + 1 + o
    BY DEF Offsets, MsgInv
  <2>. QED BY <2>1, FilledIs DEF MsgInv
<1>. HIDE DEF bytes
<1>3. \A k \in 0 .. ARR_CNT : found[k + 1].start \in Offsets
  <2>1. \A k \in 0 .. ARR_CNT : k + 1 \in 1 .. ARR_CNT + 1
    BY DEF M!MessagesConstants
  <2>2. \A k \in 0 .. ARR_CNT : found[k + 1] \in Token
    <3>. HIDE DEF found
    <3>1. found \in Seq(Token) /\ Len(found) = ARR_CNT + 1
      BY <1>2, TokensAre DEF found
    <3>. QED BY <2>1, <3>1
  <2>. QED BY <2>2 DEF Token
<1>. HIDE DEF stored, found
<1>4. IsBuffer(msg') /\ \A o \in Offsets : msg'[o] = M!NUL \/ last + 1 <= msg'[o]
  <2>. HIDE DEF ends
  <2>. QED BY <1>1, <1>2, CutIs
<1>5. /\ pArray' \in [0 .. ARR_CNT -> Offsets \cup {M!Null}]
      /\ pArray'[0] = M!Null => pArray[0] = M!Null
  <2>1. 0 \in 0 .. ARR_CNT /\ M!Null \notin Offsets
    BY DEF Offsets, M!Null, M!MessagesConstants
  <2>2. \A k \in 0 .. ARR_CNT : pArray[k] \in Offsets \cup {M!Null}
    BY DEF MsgInv
  <2>. QED BY <1>1, <1>3, <2>1, <2>2
<1>. QED BY <1>1, <1>4, <1>5

LEMMA StringNew ==
  ASSUME M!MessagesConstants, NEW bytes, IsBuffer(bytes), NEW o \in Offsets,
         NEW b \in Nat, \A p \in Offsets : bytes[p] = M!NUL \/ b <= bytes[p]
  PROVE  \A k \in M!ToSet(M!StringAt(bytes, o)) : b <= k
<1>. DEFINE s == M!StringAt(bytes, o)
            e == M!EndFrom(bytes, o, {})
<1>1. o \in Nat /\ e \in o .. SIZE
  BY EndIs DEF Offsets
<1>2. s \in Seq(Nat) /\ Len(s) = e - o /\ \A j \in 1 .. e - o : s[j] = bytes[o + j - 1] /\ bytes[o + j - 1] # M!NUL
  BY StringIs
<1>3. \A j \in 1 .. e - o : o + j - 1 \in Offsets
  BY <1>1 DEF Offsets, M!MessagesConstants
<1>4. \A k \in M!ToSet(s) : \E j \in 1 .. e - o : k = s[j]
  <2>. HIDE DEF s, e
  <2>. QED BY <1>2 DEF M!ToSet
<1>. HIDE DEF s, e
<1>5. \A k \in M!ToSet(s) : b <= k
  BY <1>2, <1>3, <1>4
<1>. QED BY <1>5 DEF s

LEMMA MsgStep == M!MessagesConstants /\ MsgInv /\ [M!Next]_M!vars => MsgInv'
<1>. SUFFICES ASSUME M!MessagesConstants, MsgInv, [M!Next]_M!vars PROVE MsgInv'
  OBVIOUS
<1>1. CASE M!Write
  BY <1>1 DEF M!Write, MsgInv, M!NothingOld, IsBuffer
<1>2. CASE M!Read
  <2>1. PICK n \in 1 .. SIZE : M!Receive(n) /\ IF pArray'[0] = M!Null THEN M!SegFault ELSE M!Sends
    BY <1>2 DEF M!Read
  <2>2. /\ first' = last + 1 /\ last' = last + n
        /\ IsBuffer(msg') /\ \A o \in Offsets : msg'[o] = M!NUL \/ first' <= msg'[o]
        /\ pArray' \in [0 .. ARR_CNT -> Offsets \cup {M!Null}]
        /\ pArray'[0] = M!Null => pArray[0] = M!Null
    BY <2>1, ReceiveIs
  <2>3. first' \in Nat /\ last' \in Nat
    BY <2>2 DEF MsgInv, M!MessagesConstants
  <2>4. IsBuffer(msg)'
    BY <2>2 DEF IsBuffer
  <2>5. CASE pArray'[0] = M!Null
    <3>1. to' = <<>> /\ text' = <<>>
      BY <2>1, <2>2, <2>5 DEF M!SegFault, MsgInv
    <3>2. M!NothingOld'
      BY <3>1 DEF M!NothingOld, M!ToSet
    <3>. QED BY <2>2, <2>3, <2>4, <3>1, <3>2 DEF MsgInv
  <2>6. CASE pArray'[0] # M!Null
    <3>1. \A k \in {0, 1} : pArray'[k] = M!Null \/ pArray'[k] \in Offsets
      BY <2>2 DEF M!MessagesConstants
    <3>2. \A k \in {0, 1} : pArray'[k] # M!Null => \A p \in M!ToSet(M!StringAt(msg', pArray'[k])) : first' <= p
      BY <2>2, <2>3, <3>1, StringNew
    <3>3. M!ToSet(<<>>) = {}
      BY DEF M!ToSet
    <3>4. to' = M!StringAt(msg', pArray'[0]) /\ text' = IF pArray'[1] = M!Null THEN <<>> ELSE M!StringAt(msg', pArray'[1])
      BY <2>1, <2>6 DEF M!Sends
    <3>5. (\A p \in M!ToSet(to') : first' <= p) /\ \A p \in M!ToSet(text') : first' <= p
      BY <2>6, <3>2, <3>3, <3>4
    <3>6. M!NothingOld'
      BY <3>5 DEF M!NothingOld
    <3>. QED BY <2>2, <2>3, <2>4, <2>6, <3>6 DEF MsgInv
  <2>. QED BY <2>5, <2>6
<1>3. CASE UNCHANGED M!vars
  BY <1>3 DEF M!vars, MsgInv, M!NothingOld, IsBuffer
<1>4. CASE M!Next
  BY <1>1, <1>2, <1>4 DEF M!Next
<1>. QED BY <1>3, <1>4

\* No byte is sent on that a read() before the last one brought, whatever the stream is cut into.
THEOREM NothingStale == M!Spec => []NothingOld
<1>1. M!Init => MsgInv
  BY PartsAssumption, MsgInit
<1>2. MsgInv /\ [M!Next]_M!vars => MsgInv'
  BY PartsAssumption, MsgStep
<1>3. MsgInv => NothingOld
  BY DEF MsgInv, M!NothingOld, NothingOld
<1>. QED BY <1>1, <1>2, <1>3, PTL DEF M!Spec

-----------------------------------------------------------------------------
(* The tokens of a line. *)

\* The parts of a line: "]" is at a.
Shape(l, a) ==
    /\ a \in 3 .. Len(l) - 1
    /\ l[1] = "[" /\ l[a] = "]" /\ l[Len(l)] = "\n"
    /\ \A j \in 2 .. Len(l) - 1 : l[j] # "[" /\ l[j] # "\n" /\ (l[j] = "]" => j = a)
    /\ \A j \in 2 .. a - 1 : l[j] # ":"

LEMMA LineShape == ASSUME M!MessagesConstants, NEW l \in Lines PROVE l \in Seq(STRING) /\ \E a : Shape(l, a)
  BY DEF M!MessagesConstants, M!IsLine, Shape

LEMMA SkipEq ==
  ASSUME M!MessagesConstants, NEW bytes, IsBuffer(bytes), NEW o \in Offsets, NEW d, NEW x \in o .. SIZE,
         ~ M!IsOneOf(bytes, x, d), \A p \in o .. x - 1 : M!IsOneOf(bytes, p, d)
  PROVE  M!SkipFrom(bytes, o, d) = x
<1>. DEFINE s == M!SkipFrom(bytes, o, d)
<1>1. s \in o .. SIZE /\ ~ M!IsOneOf(bytes, s, d) /\ \A p \in o .. s - 1 : M!IsOneOf(bytes, p, d)
  BY SkipIs
<1>. HIDE DEF s
<1>2. o \in Nat
  BY DEF Offsets
<1>3. ~ (x < s) /\ ~ (s < x)
  BY <1>1, <1>2
<1>. QED BY <1>1, <1>2, <1>3 DEF s

LEMMA EndEq ==
  ASSUME M!MessagesConstants, NEW bytes, IsBuffer(bytes), NEW o \in Offsets, NEW d, NEW x \in o .. SIZE,
         bytes[x] = M!NUL \/ M!IsOneOf(bytes, x, d), \A p \in o .. x - 1 : bytes[p] # M!NUL /\ ~ M!IsOneOf(bytes, p, d)
  PROVE  M!EndFrom(bytes, o, d) = x
<1>. DEFINE s == M!EndFrom(bytes, o, d)
<1>1. /\ s \in o .. SIZE /\ (bytes[s] = M!NUL \/ M!IsOneOf(bytes, s, d))
      /\ \A p \in o .. s - 1 : bytes[p] # M!NUL /\ ~ M!IsOneOf(bytes, p, d)
  BY EndIs
<1>. HIDE DEF s
<1>2. o \in Nat
  BY DEF Offsets
<1>3. ~ (x < s) /\ ~ (s < x)
  BY <1>1, <1>2
<1>. QED BY <1>1, <1>2, <1>3 DEF s

\* A line l is at place b of msg, with the end of msg or another line behind it.
Holds(bytes, b, l) ==
    /\ b + Len(l) \in Offsets
    /\ \A j \in 1 .. Len(l) : bytes[b + j - 1] # M!NUL /\ stream[bytes[b + j - 1]] = l[j]
    /\ bytes[b + Len(l)] = M!NUL \/ stream[bytes[b + Len(l)]] = "["

Span(s, e) == [start |-> s, end |-> e]

\* The call that begins at a line, or behind its "[", takes the address, and the next the text.
LEMMA LineTokens ==
  ASSUME M!MessagesConstants, NEW bytes, IsBuffer(bytes), NEW b \in Nat, NEW l \in Seq(STRING), NEW a,
         Shape(l, a), Holds(bytes, b, l)
  PROVE  /\ \A o \in {b, b + 1}, k \in Nat : M!TokenFrom(bytes, o, k) = Span(b + 1, b + a - 1)
         /\ M!Resume(bytes, b + a - 1) = b + a
         /\ \A k \in Nat : k # 0 => M!TokenFrom(bytes, b + a, k) = Span(b + a, b + Len(l))
<1>. DEFINE L == Len(l)
<1>1. L \in Nat /\ a \in 3 .. L - 1 /\ SIZE \in Nat /\ b + L <= SIZE
  BY DEF Shape, Holds, Offsets, M!MessagesConstants
<1>2. \A p \in b .. b + L - 1 : bytes[p] # M!NUL /\ stream[bytes[p]] = l[p - b + 1]
  <2>1. \A p \in b .. b + L - 1 : p - b + 1 \in 1 .. L /\ b + (p - b + 1) - 1 = p
    BY <1>1
  <2>2. \A j \in 1 .. L : bytes[b + j - 1] # M!NUL /\ stream[bytes[b + j - 1]] = l[j]
    BY DEF Holds
  <2>. HIDE DEF L
  <2>. QED BY <2>1, <2>2
<1>3. /\ stream[bytes[b]] = "[" /\ stream[bytes[b + a - 1]] = "]"
      /\ b \in b .. b + L - 1 /\ b + a - 1 \in b .. b + L - 1
      /\ b \in Offsets /\ b + 1 \in Offsets /\ b + a - 1 \in Offsets /\ b + a \in Offsets
  <2>1. l[1] = "[" /\ l[a] = "]"
    BY DEF Shape
  <2>2. /\ b \in b .. b + L - 1 /\ b + a - 1 \in b .. b + L - 1
        /\ b - b + 1 = 1 /\ (b + a - 1) - b + 1 = a
    <3>. HIDE DEF L
    <3>. QED BY <1>1
  <2>3. b \in Offsets /\ b + 1 \in Offsets /\ b + a - 1 \in Offsets /\ b + a \in Offsets
    <3>. HIDE DEF L
    <3>. QED BY <1>1 DEF Offsets
  <2>. HIDE DEF L
  <2>. QED BY <1>2, <2>1, <2>2, <2>3
<1>4. \A p \in b + 1 .. b + a - 2 : p \in b .. b + L - 1 /\ stream[bytes[p]] \notin {"[", ":", "]"}
  <2>1. \A p \in b + 1 .. b + a - 2 : p \in b .. b + L - 1 /\ p - b + 1 \in 2 .. L - 1 /\ p - b + 1 \in 2 .. a - 1
    BY <1>1
  <2>2. \A j \in 2 .. a - 1 : j # a /\ l[j] # ":"
    BY <1>1 DEF Shape
  <2>3. \A j \in 2 .. L - 1 : l[j] # "[" /\ (l[j] = "]" => j = a)
    BY DEF Shape
  <2>. HIDE DEF L
  <2>. QED BY <1>2, <2>1, <2>2, <2>3
<1>5. \A p \in b + a .. b + L - 1 : p \in b .. b + L - 1 /\ stream[bytes[p]] \notin {"[", "]"}
  <2>1. \A p \in b + a .. b + L - 1 : p \in b .. b + L - 1 /\ p - b + 1 \in 2 .. L /\ p - b + 1 # a
    BY <1>1
  <2>2. \A j \in 2 .. L - 1 : l[j] # "[" /\ (l[j] = "]" => j = a)
    BY DEF Shape
  <2>3. l[L] = "\n"
    BY DEF Shape
  <2>4. ASSUME NEW p \in b + a .. b + L - 1 PROVE l[p - b + 1] \notin {"[", "]"}
    <3>1. CASE p - b + 1 = L
      BY <2>3, <3>1
    <3>2. CASE p - b + 1 # L
      <4>1. p - b + 1 \in 2 .. L - 1 /\ p - b + 1 # a
        BY <1>1, <3>2
      <4>. HIDE DEF L
      <4>. QED BY <2>2, <4>1
    <3>. QED BY <3>1, <3>2
  <2>. HIDE DEF L
  <2>. QED BY <1>2, <2>1, <2>4
<1>6. bytes[b + L] = M!NUL \/ stream[bytes[b + L]] = "["
  BY DEF Holds
<1>. HIDE DEF L
<1>7. ASSUME NEW o \in {b, b + 1}, NEW k \in Nat PROVE M!TokenFrom(bytes, o, k) = Span(b + 1, b + a - 1)
  <2>. DEFINE d == M!Delims(k)
  <2>1. "[" \in d /\ "]" \in d /\ d \subseteq {"[", ":", "]"}
    BY DEF M!Delims
  <2>. HIDE DEF d
  <2>2. o \in Offsets /\ o \in Nat /\ b + 1 \in o .. SIZE
    <3>1. o = b \/ o = b + 1
      BY <1>7
    <3>2. b + 1 \in b .. SIZE /\ b + 1 \in b + 1 .. SIZE
      BY <1>1
    <3>3. o \in Offsets
      BY <1>3, <3>1
    <3>4. o \in Nat
      BY <3>1
    <3>5. b + 1 \in o .. SIZE
      BY <3>1, <3>2
    <3>. QED BY <3>3, <3>4, <3>5
  <2>3. b + 1 \in b + 1 .. b + a - 2 /\ b + 1 \in b .. b + L - 1
    BY <1>1
  <2>4. ~ M!IsOneOf(bytes, b + 1, d)
    BY <1>4, <2>1, <2>3 DEF M!IsOneOf
  <2>5. \A p \in o .. b + 1 - 1 : M!IsOneOf(bytes, p, d)
    <3>1. \A p \in o .. b + 1 - 1 : p = b
      BY <2>2
    <3>2. M!IsOneOf(bytes, b, d)
      BY <1>2, <1>3, <2>1 DEF M!IsOneOf
    <3>. QED BY <3>1, <3>2
  <2>6. M!SkipFrom(bytes, o, d) = b + 1
    BY <2>2, <2>4, <2>5, SkipEq
  <2>7. M!IsOneOf(bytes, b + a - 1, d)
    BY <1>2, <1>3, <2>1 DEF M!IsOneOf
  <2>8. b + a - 1 \in b + 1 .. SIZE
    BY <1>1
  <2>9. \A p \in b + 1 .. b + a - 1 - 1 : bytes[p] # M!NUL /\ ~ M!IsOneOf(bytes, p, d)
    <3>1. \A p \in b + 1 .. b + a - 1 - 1 : p \in b + 1 .. b + a - 2
      BY <1>1
    <3>. QED BY <1>2, <1>4, <2>1, <3>1 DEF M!IsOneOf
  <2>10. M!EndFrom(bytes, b + 1, d) = b + a - 1
    <3>. DEFINE s == b + 1
                x == b + a - 1
    <3>1. s \in Offsets /\ x \in s .. SIZE
      BY <1>3, <2>8
    <3>3. bytes[x] = M!NUL \/ M!IsOneOf(bytes, x, d)
      BY <2>7
    <3>4. \A p \in s .. x - 1 : bytes[p] # M!NUL /\ ~ M!IsOneOf(bytes, p, d)
      BY <1>1, <2>9
    <3>2. M!EndFrom(bytes, s, d) = x
      <4>. HIDE DEF s, x
      <4>. QED BY <3>1, <3>3, <3>4, EndEq
    <3>. QED BY <3>2
  <2>. QED BY <2>6, <2>10 DEF M!TokenFrom, d, Span
<1>8. M!Resume(bytes, b + a - 1) = b + a
  BY <1>1, <1>2, <1>3 DEF M!Resume
<1>9. ASSUME NEW k \in Nat, k # 0 PROVE M!TokenFrom(bytes, b + a, k) = Span(b + a, b + L)
  <2>. DEFINE d == M!Delims(k)
  <2>1. d = {"[", "]"}
    BY <1>9 DEF M!Delims
  <2>. HIDE DEF d
  <2>2. b + a \in b + a .. b + L - 1 /\ b + a \in b + a .. SIZE
    BY <1>1
  <2>3. \A p \in b + a .. b + L - 1 : bytes[p] # M!NUL /\ ~ M!IsOneOf(bytes, p, d)
    BY <1>2, <1>5, <2>1 DEF M!IsOneOf
  <2>4. \A p \in b + a .. b + a - 1 : M!IsOneOf(bytes, p, d)
    BY <1>1
  <2>5. M!SkipFrom(bytes, b + a, d) = b + a
    BY <1>3, <2>2, <2>3, <2>4, SkipEq
  <2>6. bytes[b + L] = M!NUL \/ M!IsOneOf(bytes, b + L, d)
    BY <1>6, <2>1 DEF M!IsOneOf
  <2>7. b + L \in b + a .. SIZE
    BY <1>1
  <2>8. M!EndFrom(bytes, b + a, d) = b + L
    <3>. DEFINE s == b + a
                x == b + L
    <3>1. s \in Offsets /\ x \in s .. SIZE
      BY <1>3, <2>7
    <3>3. bytes[x] = M!NUL \/ M!IsOneOf(bytes, x, d)
      BY <2>6
    <3>4. \A p \in s .. x - 1 : bytes[p] # M!NUL /\ ~ M!IsOneOf(bytes, p, d)
      BY <1>1, <2>3
    <3>2. M!EndFrom(bytes, s, d) = x
      <4>. HIDE DEF s, x
      <4>. QED BY <3>1, <3>3, <3>4, EndEq
    <3>. QED BY <3>2
  <2>. QED BY <2>5, <2>8 DEF M!TokenFrom, d, Span
<1>. QED BY <1>7, <1>8, <1>9 DEF L

\* So where call m begins at a line, calls m and m + 1 take it.
LEMMA LineTaken ==
  ASSUME M!MessagesConstants, NEW bytes, IsBuffer(bytes), NEW t \in Seq(Token), Chain(bytes, t),
         NEW b \in Nat, NEW l \in Seq(STRING), NEW a, Shape(l, a), Holds(bytes, b, l),
         NEW m \in 1 .. Len(t), m + 1 <= Len(t), Begin(bytes, t, m) \in {b, b + 1}
  PROVE  /\ t[m].start = b + 1 /\ t[m].end = b + a - 1
         /\ t[m + 1].start = b + a /\ t[m + 1].end = b + Len(l)
<1>1. /\ \A o \in {b, b + 1}, k \in Nat : M!TokenFrom(bytes, o, k) = Span(b + 1, b + a - 1)
      /\ M!Resume(bytes, b + a - 1) = b + a
      /\ \A k \in Nat : k # 0 => M!TokenFrom(bytes, b + a, k) = Span(b + a, b + Len(l))
  BY LineTokens
<1>2. m - 1 \in Nat /\ m \in Nat /\ m # 0 /\ m + 1 \in 1 .. Len(t) /\ m + 1 # 1 /\ (m + 1) - 1 = m
  OBVIOUS
<1>3. t[m] = Span(b + 1, b + a - 1)
  BY <1>1, <1>2 DEF Chain
<1>4. t[m].start = b + 1 /\ t[m].end = b + a - 1
  BY <1>3 DEF Span
<1>5. Begin(bytes, t, m + 1) = b + a
  BY <1>1, <1>2, <1>4 DEF Begin
<1>6. t[m + 1] = M!TokenFrom(bytes, Begin(bytes, t, m + 1), m)
  BY <1>2 DEF Chain
<1>7. t[m + 1] = Span(b + a, b + Len(l))
  BY <1>1, <1>2, <1>5, <1>6
<1>. QED BY <1>4, <1>7 DEF Span

\* At the end of msg every further call finds nothing.
LEMMA SpentToken ==
  ASSUME M!MessagesConstants, NEW bytes, IsBuffer(bytes), NEW e \in Offsets, bytes[e] = M!NUL, NEW k
  PROVE  M!Resume(bytes, e) = e /\ M!TokenFrom(bytes, e, k) = [start |-> e, end |-> e]
<1>1. e \in e .. SIZE /\ \A p \in e .. e - 1 : FALSE
  BY DEF Offsets, M!MessagesConstants
<1>2. \A d : M!SkipFrom(bytes, e, d) = e
  <2>1. \A d : ~ M!IsOneOf(bytes, e, d)
    BY DEF M!IsOneOf
  <2>. QED BY <1>1, <2>1, SkipEq
<1>3. \A d : M!EndFrom(bytes, e, d) = e
  BY <1>1, EndEq
<1>. QED BY <1>2, <1>3 DEF M!TokenFrom, M!Resume

LEMMA Spent ==
  ASSUME M!MessagesConstants, NEW bytes, IsBuffer(bytes), NEW t \in Seq(Token), Chain(bytes, t),
         NEW j \in 1 .. Len(t), NEW e \in Offsets, bytes[e] = M!NUL, t[j].end = e
  PROVE  \A k \in j + 1 .. Len(t) : t[k] = [start |-> e, end |-> e]
<1>. DEFINE T == {k \in j + 1 .. Len(t) : t[k] # [start |-> e, end |-> e]}
<1>. SUFFICES ASSUME T # {} PROVE FALSE
  OBVIOUS
<1>1. PICK n \in T : \A m \in T : n <= m
  <2>1. T \subseteq Nat
    OBVIOUS
  <2>. HIDE DEF T
  <2>. QED BY <2>1, Least
<1>2. n \in j + 1 .. Len(t) /\ n \in 1 .. Len(t) /\ n # 1 /\ Len(t) \in Nat
  OBVIOUS
<1>3. t[n - 1].end = e
  <2>1. CASE n = j + 1
    BY <2>1
  <2>2. CASE n # j + 1
    <3>1. n - 1 \in j + 1 .. Len(t) /\ ~ (n <= n - 1)
      BY <1>2, <2>2
    <3>2. n - 1 \notin T
      <4>. HIDE DEF T
      <4>. QED BY <1>1, <3>1
    <3>. QED BY <3>1, <3>2
  <2>. QED BY <2>1, <2>2
<1>4. t[n] = M!TokenFrom(bytes, M!Resume(bytes, e), n - 1)
  BY <1>2, <1>3 DEF Chain, Begin
<1>5. t[n] = [start |-> e, end |-> e]
  BY <1>4, SpentToken
<1>. QED BY <1>1, <1>5

\* Tokens end one after the other.
LEMMA Later ==
  ASSUME M!MessagesConstants, NEW bytes, IsBuffer(bytes), NEW t \in Seq(Token), Chain(bytes, t),
         NEW j \in 1 .. Len(t)
  PROVE  \A k \in j .. Len(t) : t[j].end <= t[k].end
<1>. DEFINE T == {k \in j .. Len(t) : ~ (t[j].end <= t[k].end)}
<1>. SUFFICES ASSUME T # {} PROVE FALSE
  OBVIOUS
<1>1. PICK n \in T : \A m \in T : n <= m
  <2>1. T \subseteq Nat
    OBVIOUS
  <2>. HIDE DEF T
  <2>. QED BY <2>1, Least
<1>2. \A k \in 1 .. Len(t) : t[k].end \in Offsets /\ t[k].end \in Nat
  <2>1. \A k \in 1 .. Len(t) : t[k] \in Token
    OBVIOUS
  <2>2. \A x \in Token : x.end \in Offsets /\ x.end \in Nat
    BY DEF Token, Offsets
  <2>. QED BY <2>1, <2>2
<1>3. n \in j .. Len(t) /\ n \in 1 .. Len(t) /\ Len(t) \in Nat /\ n # j
  <2>1. t[j].end <= t[j].end
    BY <1>2
  <2>. QED BY <2>1
<1>4. n - 1 \in j .. Len(t) /\ n - 1 \in 1 .. Len(t) /\ n # 1 /\ ~ (n <= n - 1)
  BY <1>3
<1>5. t[j].end <= t[n - 1].end
  <2>1. n - 1 \notin T
    <3>. HIDE DEF T
    <3>. QED BY <1>1, <1>4
  <2>. QED BY <1>4, <2>1
<1>. DEFINE o == M!Resume(bytes, t[n - 1].end)
<1>6. o \in Offsets /\ t[n - 1].end <= o
  BY <1>2, <1>4, ResumeType
<1>7. t[n] = M!TokenFrom(bytes, o, n - 1)
  BY <1>3, <1>4 DEF Chain, Begin
<1>. HIDE DEF o
<1>8. o <= t[n].end
  <2>. DEFINE s == M!SkipFrom(bytes, o, M!Delims(n - 1))
              x == M!EndFrom(bytes, s, M!Delims(n - 1))
  <2>1. s \in o .. SIZE
    BY <1>6, SkipIs
  <2>2. s \in Offsets
    BY <1>6, <2>1 DEF Offsets, M!MessagesConstants
  <2>3. x \in s .. SIZE
    <3>. HIDE DEF s
    <3>. QED BY <2>2, EndIs
  <2>4. t[n].end = x
    BY <1>7 DEF M!TokenFrom
  <2>. HIDE DEF s, x
  <2>. QED BY <1>6, <2>1, <2>2, <2>3, <2>4 DEF Offsets
<1>9. t[j].end <= t[n].end
  BY <1>2, <1>3, <1>4, <1>5, <1>6, <1>8 DEF Offsets
<1>. QED BY <1>1, <1>9

-----------------------------------------------------------------------------
(* The stream. *)

LineAt(l, p) == l \in Lines /\ p + Len(l) <= Len(stream) /\ \A j \in 1 .. Len(l) : stream[p + j] = l[j]

\* The stream is whole lines, one behind the other.
StreamInv ==
    /\ stream \in Seq(STRING) /\ Len(stream) \in M!LineEnds
    /\ \A p \in M!LineEnds : p < Len(stream) => \E l \in Lines : LineAt(l, p)

LEMMA Longer ==
  ASSUME NEW s \in Seq(STRING), NEW l \in Seq(STRING), NEW t, t = s \o l
  PROVE  /\ t \in Seq(STRING) /\ Len(t) = Len(s) + Len(l)
         /\ \A p \in 1 .. Len(s) : t[p] = s[p]
         /\ \A j \in 1 .. Len(l) : t[Len(s) + j] = l[j]
<1>1. /\ t \in Seq(STRING) /\ Len(t) = Len(s) + Len(l)
      /\ \A p \in 1 .. Len(s) + Len(l) : t[p] = IF p <= Len(s) THEN s[p] ELSE l[p - Len(s)]
  BY ConcatProperties
<1>2. \A p \in 1 .. Len(s) : p \in 1 .. Len(s) + Len(l) /\ p <= Len(s)
  OBVIOUS
<1>3. \A j \in 1 .. Len(l) : Len(s) + j \in 1 .. Len(s) + Len(l) /\ ~ (Len(s) + j <= Len(s)) /\ Len(s) + j - Len(s) = j
  OBVIOUS
<1>. QED BY <1>1, <1>2, <1>3

LEMMA Grows ==
  ASSUME M!MessagesConstants, StreamInv, M!Write
  PROVE  /\ stream' \in Seq(STRING) /\ Len(stream) <= Len(stream')
         /\ \A p \in 1 .. Len(stream) : stream'[p] = stream[p]
         /\ \A p \in 0 .. Len(stream) : p \in M!LineEnds' <=> p \in M!LineEnds
         /\ StreamInv'
<1>1. PICK l \in Lines : stream' = stream \o l
  BY DEF M!Write
<1>2. l \in Seq(STRING)
  BY LineShape
<1>3. PICK a : Shape(l, a)
  BY LineShape
<1>. DEFINE N == Len(stream)
            t == stream'
<1>4. stream \in Seq(STRING) /\ N \in Nat /\ N \in M!LineEnds
  BY DEF StreamInv
<1>5. /\ t \in Seq(STRING) /\ Len(t) = N + Len(l)
      /\ \A p \in 1 .. N : t[p] = stream[p]
      /\ \A j \in 1 .. Len(l) : t[N + j] = l[j]
  <2>. HIDE DEF t
  <2>. QED BY <1>1, <1>2, <1>4, Longer DEF t
<1>6. M!LineEnds' = {0} \cup {p \in 1 .. Len(t) : t[p] = "\n"}
  BY DEF M!LineEnds
<1>. HIDE DEF N, t
<1>7. Len(l) \in Nat /\ Len(l) > 1 /\ l[Len(l)] = "\n" /\ \A j \in 1 .. Len(l) - 1 : l[j] # "\n"
  <2>1. Len(l) \in Nat /\ a \in 3 .. Len(l) - 1
    BY <1>2, <1>3 DEF Shape
  <2>2. \A j \in 1 .. Len(l) - 1 : j = 1 \/ j \in 2 .. Len(l) - 1
    BY <2>1
  <2>. QED BY <1>3, <2>1, <2>2 DEF Shape
<1>8. \A p \in 0 .. N : p \in M!LineEnds' <=> p \in M!LineEnds
  <2>1. \A p \in 0 .. N : p = 0 \/ (p \in 1 .. N /\ p \in 1 .. Len(t))
    BY <1>4, <1>5, <1>7
  <2>2. M!LineEnds = {0} \cup {p \in 1 .. N : stream[p] = "\n"}
    BY DEF M!LineEnds, N
  <2>. QED BY <1>5, <1>6, <2>1, <2>2
<1>9. Len(t) \in M!LineEnds'
  <2>1. Len(t) \in 1 .. Len(t) /\ Len(l) \in 1 .. Len(l)
    BY <1>4, <1>5, <1>7
  <2>2. t[Len(t)] = "\n"
    BY <1>5, <1>7, <2>1
  <2>. QED BY <1>6, <2>1, <2>2
<1>10. ASSUME NEW p \in M!LineEnds', p < Len(t)
       PROVE  \E m \in Lines : p + Len(m) <= Len(t) /\ \A j \in 1 .. Len(m) : t[p + j] = m[j]
  <2>1. p \in 0 .. Len(t)
    BY <1>4, <1>5, <1>6, <1>7
  <2>2. CASE p < N
    <3>1. p \in M!LineEnds /\ p \in Nat
      BY <1>4, <1>8, <2>1, <2>2
    <3>2. PICK m \in Lines : LineAt(m, p)
      BY <2>2, <3>1 DEF StreamInv, N
    <3>3. m \in Seq(STRING) /\ p + Len(m) <= N /\ \A j \in 1 .. Len(m) : stream[p + j] = m[j]
      BY <3>2, LineShape DEF LineAt, N
    <3>4. \A j \in 1 .. Len(m) : p + j \in 1 .. N
      BY <1>4, <3>1, <3>3
    <3>5. p + Len(m) <= Len(t)
      BY <1>4, <1>5, <1>7, <3>1, <3>3
    <3>. QED BY <1>5, <3>3, <3>4, <3>5
  <2>3. CASE p = N
    BY <1>4, <1>5, <1>7, <2>3
  <2>4. CASE p > N
    <3>1. p - N \in 1 .. Len(l) - 1 /\ N + (p - N) = p /\ p # 0
      BY <1>4, <1>5, <1>7, <1>10, <2>1, <2>4
    <3>2. t[p] # "\n"
      <4>1. p - N \in 1 .. Len(l)
        BY <1>7, <3>1
      <4>. QED BY <1>5, <1>7, <3>1, <4>1
    <3>. QED BY <1>6, <3>1, <3>2
  <2>. QED BY <1>4, <2>1, <2>2, <2>3, <2>4
<1>11. StreamInv'
  BY <1>5, <1>9, <1>10 DEF StreamInv, LineAt, t
<1>. QED BY <1>4, <1>5, <1>7, <1>8, <1>11 DEF N, t

\* Where a line ends in what a read() of whole lines brought, a line lies in msg.
LEMMA LineHeld ==
  ASSUME M!MessagesConstants, StreamInv, last \in Nat, NEW n \in 1 .. SIZE, last + n \in M!LineEnds,
         NEW b \in 0 .. n - 1, last + b \in M!LineEnds
  PROVE  \E l \in Lines :
            /\ Holds(M!Filled(n), b, l)
            /\ b + Len(l) <= n /\ last + b + Len(l) \in M!LineEnds
            /\ \A j \in 1 .. Len(l) : stream[last + b + j] = l[j]
<1>. DEFINE N == Len(stream)
            bytes == M!Filled(n)
<1>1. /\ stream \in Seq(STRING) /\ N \in Nat
      /\ \A p \in M!LineEnds : p \in Nat /\ p <= N /\ (p # 0 => stream[p] = "\n")
      /\ \A p \in 1 .. N : stream[p] = "\n" => p \in M!LineEnds
  BY DEF StreamInv, M!LineEnds
<1>. HIDE DEF N
<1>2. /\ n \in Nat /\ n <= SIZE /\ n >= 1 /\ b \in Nat /\ b < n /\ last + n <= N /\ last + b < N /\ SIZE \in Nat
      /\ last + b \in Nat
  BY <1>1 DEF M!MessagesConstants
<1>3. PICK l \in Lines : LineAt(l, last + b)
  BY <1>2 DEF StreamInv, N
<1>4. PICK a : Shape(l, a)
  BY LineShape
<1>. DEFINE L == Len(l)
<1>5. /\ L \in Nat /\ last + b + L <= N /\ \A j \in 1 .. L : stream[last + b + j] = l[j]
  BY <1>2, <1>3, LineShape DEF LineAt, N
<1>6. /\ L > 1 /\ l[1] = "[" /\ l[L] = "\n" /\ \A j \in 2 .. L - 1 : l[j] # "\n"
  <2>1. a \in 3 .. L - 1
    BY <1>4 DEF Shape
  <2>2. L > 1
    BY <1>5, <2>1
  <2>. QED BY <1>4, <2>2 DEF Shape
<1>. HIDE DEF L
<1>7. b + L <= n
  <2>1. SUFFICES ASSUME b + L > n PROVE FALSE
    BY <1>2, <1>5
  <2>2. n - b \in 1 .. L /\ n - b # L /\ last + b + (n - b) = last + n /\ last + n # 0
    BY <1>2, <1>5, <2>1
  <2>3. stream[last + n] = "\n"
    BY <1>1, <2>2
  <2>4. l[n - b] = "\n"
    BY <1>5, <2>2, <2>3
  <2>5. n - b = 1 \/ n - b \in 2 .. L - 1
    BY <1>2, <1>5, <2>2
  <2>. QED BY <1>6, <2>4, <2>5
<1>8. last + b + L \in M!LineEnds
  <2>1. last + b + L \in 1 .. N /\ L \in 1 .. L
    BY <1>2, <1>5, <1>6
  <2>. QED BY <1>1, <1>5, <1>6, <2>1
<1>9. IsBuffer(bytes) /\ \A o \in Offsets : bytes[o] = IF o < n THEN last + 1 + o ELSE M!NUL
  BY FilledIs
<1>. HIDE DEF bytes
<1>10. ASSUME NEW j \in 1 .. L PROVE bytes[b + j - 1] # M!NUL /\ stream[bytes[b + j - 1]] = l[j]
  <2>1. b + j - 1 \in Offsets /\ b + j - 1 < n /\ last + 1 + (b + j - 1) = last + b + j /\ last + b + j # 0
    BY <1>2, <1>5, <1>7 DEF Offsets
  <2>2. bytes[b + j - 1] = last + b + j
    BY <1>9, <2>1
  <2>. QED BY <1>5, <2>1, <2>2 DEF M!NUL
<1>11. b + L \in Offsets
  BY <1>2, <1>5, <1>7 DEF Offsets
<1>12. bytes[b + L] = M!NUL \/ stream[bytes[b + L]] = "["
  <2>1. CASE ~ (b + L < n)
    BY <1>9, <1>11, <2>1
  <2>2. CASE b + L < n
    <3>1. last + b + L < N /\ last + 1 + (b + L) = last + b + L + 1
      BY <1>1, <1>2, <1>5, <2>2
    <3>2. bytes[b + L] = last + b + L + 1
      BY <1>9, <1>11, <2>2, <3>1
    <3>3. PICK m \in Lines : LineAt(m, last + b + L)
      BY <1>8, <3>1 DEF StreamInv, N
    <3>4. 1 \in 1 .. Len(m) /\ m[1] = "["
      <4>1. m \in Seq(STRING) /\ \E c : Shape(m, c)
        BY LineShape
      <4>2. PICK c : Shape(m, c)
        BY <4>1
      <4>3. Len(m) \in Nat /\ c \in 3 .. Len(m) - 1 /\ m[1] = "["
        BY <4>1, <4>2 DEF Shape
      <4>. QED BY <4>3
    <3>5. stream[last + b + L + 1] = "["
      BY <3>3, <3>4 DEF LineAt
    <3>. QED BY <3>2, <3>5
  <2>. QED BY <2>1, <2>2
<1>13. Holds(bytes, b, l)
  BY <1>10, <1>11, <1>12 DEF Holds, L
<1>. QED BY <1>5, <1>7, <1>8, <1>13 DEF L, bytes

-----------------------------------------------------------------------------
(* A read() of whole lines. *)

LEMMA MinEq ==
  ASSUME NEW T, T \subseteq Nat, NEW x \in T, \A y \in T : x <= y
  PROVE  M!Min(T) = x
<1>. DEFINE m == M!Min(T)
<1>1. m \in T /\ \A y \in T : m <= y
  BY MinIs
<1>. HIDE DEF m
<1>2. m <= x /\ x <= m /\ m \in Nat /\ x \in Nat
  BY <1>1
<1>. QED BY <1>2 DEF m

\* A character of a line is found where the line has it first.
LEMMA ByteIs ==
  ASSUME NEW s, NEW b \in Nat, NEW e \in Nat, NEW x \in b + 1 .. e, NEW c,
         s[x] = c, \A p \in b + 1 .. x - 1 : s[p] # c
  PROVE  M!Min({p \in b + 1 .. e : s[p] = c}) = x
<1>. DEFINE T == {p \in b + 1 .. e : s[p] = c}
<1>1. T \subseteq Nat /\ x \in T
  OBVIOUS
<1>2. \A y \in T : x <= y
  <2>1. \A y \in b + 1 .. e : ~ (x <= y) => y \in b + 1 .. x - 1
    OBVIOUS
  <2>. QED BY <2>1
<1>. HIDE DEF T
<1>3. M!Min(T) = x
  BY <1>1, <1>2, MinEq
<1>. QED BY <1>3 DEF T

\* The string at o is the bytes from last + 1 + o on, up to place e.
LEMMA StringOf ==
  ASSUME M!MessagesConstants, NEW bytes, IsBuffer(bytes), NEW o \in Offsets, NEW e \in o .. SIZE, NEW b \in Nat,
         bytes[e] = M!NUL, \A p \in o .. e - 1 : bytes[p] = b + p /\ b + p # M!NUL
  PROVE  M!StringAt(bytes, o) = M!From(b + o, b + e - 1)
<1>1. o \in Nat /\ SIZE \in Nat
  BY DEF Offsets, M!MessagesConstants
<1>2. M!EndFrom(bytes, o, {}) = e
  <2>1. \A p \in o .. e - 1 : bytes[p] # M!NUL /\ ~ M!IsOneOf(bytes, p, {})
    BY DEF M!IsOneOf
  <2>. QED BY <2>1, EndEq
<1>. DEFINE s == M!StringAt(bytes, o)
<1>3. s \in Seq(Nat) /\ Len(s) = e - o /\ \A j \in 1 .. e - o : s[j] = bytes[o + j - 1]
  BY <1>2, StringIs
<1>4. \A j \in 1 .. e - o : o + j - 1 \in o .. e - 1 /\ b + (o + j - 1) = b + o + j - 1
  BY <1>1
<1>. HIDE DEF s
<1>5. \A j \in 1 .. e - o : s[j] = b + o + j - 1
  BY <1>3, <1>4
<1>6. (b + e - 1) - (b + o) + 1 = e - o
  BY <1>1
<1>7. s = [j \in 1 .. e - o |-> s[j]]
  BY <1>3
<1>8. s = [j \in 1 .. e - o |-> b + o + j - 1]
  BY <1>5, <1>7
<1>. QED BY <1>6, <1>8 DEF M!From, s

\* The first line's address and text are the first two tokens; the other calls look behind it.
LEMMA FirstTokens ==
  ASSUME M!MessagesConstants, NEW bytes, IsBuffer(bytes), NEW l \in Lines, NEW a, Shape(l, a), Holds(bytes, 0, l)
  PROVE  /\ M!Tokens(bytes)[1].start = 1 /\ M!Tokens(bytes)[1].end = a - 1
         /\ M!Tokens(bytes)[2].start = a /\ M!Tokens(bytes)[2].end = Len(l)
         /\ \A k \in 2 .. ARR_CNT + 1 : Len(l) <= M!Tokens(bytes)[k].end
<1>. DEFINE t == M!Tokens(bytes)
            b == 0
            m == 1
<1>1. t \in Seq(Token) /\ Len(t) = ARR_CNT + 1 /\ Chain(bytes, t)
  BY TokensAre
<1>2. l \in Seq(STRING) /\ a \in Nat /\ ARR_CNT \in Nat /\ ARR_CNT > 3 /\ Len(l) \in Nat
  BY LineShape DEF Shape, M!MessagesConstants
<1>. HIDE DEF t
<1>3. b \in Nat /\ m \in 1 .. Len(t) /\ m + 1 <= Len(t) /\ Begin(bytes, t, m) \in {b, b + 1} /\ Holds(bytes, b, l)
  BY <1>1, <1>2 DEF Begin
<1>4. /\ t[m].start = b + 1 /\ t[m].end = b + a - 1
      /\ t[m + 1].start = b + a /\ t[m + 1].end = b + Len(l)
  <2>. HIDE DEF b, m
  <2>. QED BY <1>1, <1>2, <1>3, LineTaken, ZenonT(30)
<1>5. 1 = m /\ 2 = m + 1 /\ 1 = b + 1 /\ a - 1 = b + a - 1 /\ a = b + a /\ Len(l) = b + Len(l)
  BY <1>2
<1>6. t[1].start = 1 /\ t[1].end = a - 1 /\ t[2].start = a /\ t[2].end = Len(l)
  <2>. HIDE DEF b, m
  <2>. QED BY <1>4, <1>5
<1>7. \A k \in 2 .. Len(t) : t[2].end <= t[k].end
  <2>1. 2 \in 1 .. Len(t)
    BY <1>1, <1>2
  <2>. QED BY <1>1, <2>1, Later
<1>. QED BY <1>1, <1>6, <1>7 DEF t

ReadInv == StreamInv /\ MsgInv /\ first > 0 /\ first <= last + 1 /\ last <= Len(stream)

LEMMA LastIsNat == ReadInv => first \in Nat /\ last \in Nat /\ stream \in Seq(STRING)
  BY DEF ReadInv, MsgInv, StreamInv

\* What the thread makes of whole lines.
LEMMA WholeLinesRead ==
  ASSUME M!MessagesConstants, ReadInv, last \in M!LineEnds, NEW n \in 1 .. SIZE, last + n \in M!LineEnds,
         M!Receive(n), IF pArray'[0] = M!Null THEN M!SegFault ELSE M!Sends
  PROVE  /\ M!SendsFirstLine' /\ pArray'[0] # M!Null /\ M!Sends
         /\ ARR_CNT \notin M!Stored(M!Tokens(M!Filled(n))) => ~ spilt'
<1>. DEFINE bytes == M!Filled(n)
            found == M!Tokens(bytes)
            stored == M!Stored(found)
            ends == {found[k + 1].end : k \in stored}
<1>1. /\ first' = last + 1 /\ last' = last + n /\ stream' = stream
      /\ msg' = M!Cut(bytes, ends) /\ spilt' = (ARR_CNT \in stored)
      /\ pArray' = [k \in 0 .. ARR_CNT |-> IF k \in stored THEN found[k + 1].start ELSE pArray[k]]
  BY DEF M!Receive
<1>2. last \in Nat /\ n \in Nat /\ n >= 1 /\ n <= SIZE /\ SIZE \in Nat
  BY LastIsNat DEF M!MessagesConstants
<1>3. IsBuffer(bytes) /\ \A o \in Offsets : bytes[o] = IF o < n THEN last + 1 + o ELSE M!NUL
  BY <1>2, FilledIs
<1>4. PICK l \in Lines :
        /\ Holds(bytes, 0, l) /\ Len(l) <= n
        /\ \A j \in 1 .. Len(l) : stream[last + j] = l[j]
  <2>1. 0 \in 0 .. n - 1 /\ last + 0 = last /\ last + 0 \in M!LineEnds /\ StreamInv
    BY <1>2 DEF ReadInv
  <2>2. PICK l \in Lines :
            /\ Holds(bytes, 0, l)
            /\ 0 + Len(l) <= n /\ last + 0 + Len(l) \in M!LineEnds
            /\ \A j \in 1 .. Len(l) : stream[last + 0 + j] = l[j]
    BY <1>2, <2>1, LineHeld
  <2>3. Len(l) \in Nat
    BY LineShape
  <2>4. 0 + Len(l) = Len(l)
    BY <2>3
  <2>. HIDE DEF bytes
  <2>. QED BY <2>1, <2>2, <2>4
<1>5. PICK a : Shape(l, a)
  BY LineShape
<1>. DEFINE L == Len(l)
<1>6. /\ L \in Nat /\ a \in Nat /\ a >= 3 /\ a < L /\ L <= n
      /\ l[a] = "]" /\ l[L] = "\n"
      /\ \A j \in 1 .. a - 1 : l[j] # "]"
      /\ \A j \in 1 .. L - 1 : l[j] # "\n"
  <2>1. L \in Nat /\ a \in 3 .. L - 1
    BY <1>5, LineShape DEF Shape
  <2>2. \A j \in 1 .. L - 1 : j = 1 \/ j \in 2 .. L - 1
    BY <2>1
  <2>3. \A j \in 1 .. a - 1 : j \in 1 .. L - 1 /\ j # a
    BY <2>1
  <2>. QED BY <1>4, <1>5, <2>1, <2>2, <2>3 DEF Shape
<1>7. /\ found[1].start = 1 /\ found[1].end = a - 1
      /\ found[2].start = a /\ found[2].end = L
      /\ \A k \in 2 .. ARR_CNT + 1 : L <= found[k].end
  <2>. HIDE DEF bytes
  <2>. QED BY <1>3, <1>4, <1>5, FirstTokens
<1>. HIDE DEF found, bytes, L
<1>8. 0 \in stored /\ 1 \in stored /\ stored \subseteq 0 .. ARR_CNT
  <2>1. 0 \in 0 .. ARR_CNT /\ 1 \in 0 .. ARR_CNT
    BY DEF M!MessagesConstants
  <2>2. found[0 + 1].start # found[0 + 1].end /\ found[1 + 1].start # found[1 + 1].end
    BY <1>6, <1>7
  <2>. QED BY <2>1, <2>2 DEF M!Stored
<1>. HIDE DEF stored
<1>9. pArray'[0] = 1 /\ pArray'[1] = a
  <2>1. 0 \in 0 .. ARR_CNT /\ 1 \in 0 .. ARR_CNT
    BY DEF M!MessagesConstants
  <2>. QED BY <1>1, <1>7, <1>8, <2>1
<1>10. M!Sends
  BY <1>9 DEF M!Null
<1>11. a - 1 \in ends /\ L \in ends /\ \A e \in ends : e = a - 1 \/ L <= e
  <2>1. \A k \in stored : k = 0 \/ k + 1 \in 2 .. ARR_CNT + 1
    BY <1>8 DEF M!MessagesConstants
  <2>2. \A k \in stored : found[k + 1].end = a - 1 \/ L <= found[k + 1].end
    <3>1. ASSUME NEW k \in stored PROVE found[k + 1].end = a - 1 \/ L <= found[k + 1].end
      <4>1. CASE k = 0
        BY <1>7, <4>1
      <4>2. CASE k + 1 \in 2 .. ARR_CNT + 1
        BY <1>7, <4>2
      <4>. QED BY <2>1, <4>1, <4>2
    <3>. QED BY <3>1
  <2>3. found[0 + 1].end = a - 1 /\ found[1 + 1].end = L
    BY <1>7
  <2>. QED BY <1>8, <2>2, <2>3
<1>. HIDE DEF ends
<1>12. IsBuffer(msg') /\ \A o \in Offsets : msg'[o] = IF o \in ends THEN M!NUL ELSE bytes[o]
  BY <1>1, <1>3, CutIs
<1>13. /\ msg'[a - 1] = M!NUL /\ msg'[L] = M!NUL
       /\ \A p \in 1 .. L - 1 : p # a - 1 => msg'[p] = last + 1 + p /\ last + 1 + p # M!NUL
  <2>1. a - 1 \in Offsets /\ L \in Offsets
    BY <1>2, <1>6 DEF Offsets
  <2>2. \A p \in 1 .. L - 1 : p \in Offsets /\ p < n /\ ~ (L <= p) /\ last + 1 + p # 0
    BY <1>2, <1>6 DEF Offsets
  <2>. QED BY <1>3, <1>11, <1>12, <2>1, <2>2 DEF M!NUL
<1>14. M!StringAt(msg', 1) = M!From(last + 1 + 1, last + 1 + (a - 1) - 1)
  <2>. DEFINE e == a - 1
              b == last + 1
  <2>1. 1 \in Offsets /\ e \in 1 .. SIZE /\ b \in Nat
    BY <1>2, <1>6 DEF Offsets
  <2>2. \A p \in 1 .. e - 1 : p \in 1 .. L - 1 /\ p # a - 1
    BY <1>6
  <2>3. \A p \in 1 .. e - 1 : msg'[p] = b + p /\ b + p # M!NUL
    BY <1>13, <2>2
  <2>4. msg'[e] = M!NUL
    BY <1>13
  <2>. HIDE DEF e, b
  <2>5. M!StringAt(msg', 1) = M!From(b + 1, b + e - 1)
    BY <1>12, <2>1, <2>3, <2>4, StringOf
  <2>. QED BY <2>5 DEF e, b
<1>15. M!StringAt(msg', a) = M!From(last + 1 + a, last + 1 + L - 1)
  <2>. DEFINE b == last + 1
  <2>1. a \in Offsets /\ L \in a .. SIZE /\ b \in Nat
    BY <1>2, <1>6 DEF Offsets
  <2>2. \A p \in a .. L - 1 : p \in 1 .. L - 1 /\ p # a - 1
    BY <1>6
  <2>3. \A p \in a .. L - 1 : msg'[p] = b + p /\ b + p # M!NUL
    BY <1>13, <2>2
  <2>. HIDE DEF b
  <2>5. M!StringAt(msg', a) = M!From(b + a, b + L - 1)
    BY <1>12, <1>13, <2>1, <2>3, StringOf
  <2>. QED BY <2>5 DEF b
<1>16. to' = M!From(last + 2, last + a - 1) /\ text' = M!From(last + a + 1, last + L)
  <2>1. /\ last + 1 + 1 = last + 2 /\ last + 1 + (a - 1) - 1 = last + a - 1
        /\ last + 1 + a = last + a + 1 /\ last + 1 + L - 1 = last + L /\ a # M!Null
    BY <1>2, <1>6 DEF M!Null
  <2>2. to' = M!StringAt(msg', 1) /\ text' = M!StringAt(msg', a)
    BY <1>9, <1>10, <2>1 DEF M!Sends
  <2>. QED BY <1>14, <1>15, <2>1, <2>2
<1>17. M!Byte("]")' = last + a /\ M!Byte("\n")' = last + L
  <2>1. last + a \in last + 1 .. last + n /\ last + L \in last + 1 .. last + n /\ last + n \in Nat
    BY <1>2, <1>6
  <2>2. \A p \in last + 1 .. last + L : p - last \in 1 .. L /\ last + (p - last) = p
    BY <1>2, <1>6
  <2>3. \A p \in last + 1 .. last + L : stream[p] = l[p - last]
    <3>1. \A j \in 1 .. L : stream[last + j] = l[j]
      BY <1>4 DEF L
    <3>. QED BY <2>2, <3>1
  <2>4. /\ last + a \in last + 1 .. last + L /\ last + L \in last + 1 .. last + L
        /\ last + a - last = a /\ last + L - last = L
    BY <1>2, <1>6
  <2>5. stream[last + a] = "]" /\ stream[last + L] = "\n"
    <3>1. a \in 1 .. L /\ L \in 1 .. L
      BY <1>6
    <3>. QED BY <1>4, <1>6, <3>1 DEF L
  <2>6. \A p \in last + 1 .. last + a - 1 : p \in last + 1 .. last + L /\ p - last \in 1 .. a - 1
    BY <1>2, <1>6
  <2>7. \A p \in last + 1 .. last + L - 1 : p \in last + 1 .. last + L /\ p - last \in 1 .. L - 1
    BY <1>2, <1>6
  <2>8. \A p \in last + 1 .. last + a - 1 : stream[p] # "]"
    BY <1>6, <2>3, <2>6
  <2>9. \A p \in last + 1 .. last + L - 1 : stream[p] # "\n"
    BY <1>6, <2>3, <2>7
  <2>10. M!Min({p \in last + 1 .. last + n : stream[p] = "]"}) = last + a
    <3>. DEFINE x == last + a
                e == last + n
    <3>1. x \in last + 1 .. e /\ e \in Nat /\ stream[x] = "]" /\ \A p \in last + 1 .. x - 1 : stream[p] # "]"
      BY <1>2, <1>6, <2>1, <2>5, <2>8
    <3>2. M!Min({p \in last + 1 .. e : stream[p] = "]"}) = x
      <4>. HIDE DEF x, e
      <4>. QED BY <1>2, <3>1, ByteIs
    <3>. QED BY <3>2
  <2>11. M!Min({p \in last + 1 .. last + n : stream[p] = "\n"}) = last + L
    <3>. DEFINE x == last + L
                e == last + n
    <3>1. x \in last + 1 .. e /\ e \in Nat /\ stream[x] = "\n" /\ \A p \in last + 1 .. x - 1 : stream[p] # "\n"
      BY <1>2, <1>6, <2>1, <2>5, <2>9
    <3>2. M!Min({p \in last + 1 .. e : stream[p] = "\n"}) = x
      <4>. HIDE DEF x, e
      <4>. QED BY <1>2, <3>1, ByteIs
    <3>. QED BY <3>2
  <2>. QED BY <1>1, <2>10, <2>11 DEF M!Byte
<1>18. M!SendsFirstLine'
  <2>1. first' + 1 = last + 2 /\ M!Byte("]")' - 1 = last + a - 1 /\ M!Byte("]")' + 1 = last + a + 1
    BY <1>1, <1>2, <1>6, <1>17
  <2>. QED BY <1>16, <1>17, <2>1 DEF M!SendsFirstLine
<1>19. ARR_CNT \notin stored => ~ spilt'
  BY <1>1, Zenon
<1>. QED BY <1>9, <1>10, <1>18, <1>19 DEF M!Null, stored, found, bytes

LEMMA ThreeEnds ==
  ASSUME NEW T, NEW lo \in Int, NEW j \in Int, T \subseteq lo .. j,
         NEW x \in T, NEW y \in T, NEW z \in T, x # y, y # z, x # z
  PROVE  Cardinality(T) >= 3
<1>1. IsFiniteSet(T)
  BY FS_Interval, FS_Subset
<1>2. IsFiniteSet({}) /\ Cardinality({}) = 0
  BY FS_EmptySet
<1>3. IsFiniteSet({x}) /\ Cardinality({x}) = 1
  BY FS_Singleton
<1>4. IsFiniteSet({x, y}) /\ Cardinality({x, y}) = 2
  <2>1. {x, y} = {x} \cup {y} /\ y \notin {x}
    OBVIOUS
  <2>2. IsFiniteSet({x} \cup {y}) /\ Cardinality({x} \cup {y}) = Cardinality({x}) + 1
    BY <1>3, <2>1, FS_AddElement
  <2>. QED BY <1>3, <2>1, <2>2
<1>5. IsFiniteSet({x, y, z}) /\ Cardinality({x, y, z}) = 3
  <2>1. {x, y, z} = {x, y} \cup {z} /\ z \notin {x, y}
    OBVIOUS
  <2>2. IsFiniteSet({x, y} \cup {z}) /\ Cardinality({x, y} \cup {z}) = Cardinality({x, y}) + 1
    BY <1>4, <2>1, FS_AddElement
  <2>. QED BY <1>4, <2>1, <2>2
<1>6. {x, y, z} \subseteq T
  OBVIOUS
<1>7. Cardinality(T) \in Nat /\ Cardinality({x, y, z}) <= Cardinality(T)
  BY <1>1, <1>6, FS_Subset, FS_CardinalityType
<1>. QED BY <1>5, <1>7

\* In the instance, Cardinality goes by another name.
LEMMA SameCardinality == \A T : M!Cardinality(T) = Cardinality(T)
  BY DEF M!Cardinality, Cardinality

\* Two lines are four tokens.
LEMMA TwoLinesTokens ==
  ASSUME M!MessagesConstants, ReadInv, last \in M!LineEnds, NEW n \in 1 .. SIZE, last + n \in M!LineEnds,
         Cardinality(M!LineEnds \cap last + 1 .. last + n) <= 2
  PROVE  ARR_CNT \notin M!Stored(M!Tokens(M!Filled(n)))
<1>. DEFINE bytes == M!Filled(n)
            t == M!Tokens(bytes)
            T == M!LineEnds \cap last + 1 .. last + n
<1>1. last \in Nat /\ n \in Nat /\ n >= 1 /\ n <= SIZE /\ SIZE \in Nat /\ StreamInv
  BY LastIsNat DEF ReadInv, M!MessagesConstants
<1>2. IsBuffer(bytes) /\ \A o \in Offsets : bytes[o] = IF o < n THEN last + 1 + o ELSE M!NUL
  BY <1>1, FilledIs
<1>3. n \in Offsets /\ bytes[n] = M!NUL
  <2>1. n \in Offsets /\ ~ (n < n)
    BY <1>1 DEF Offsets
  <2>. HIDE DEF bytes
  <2>. QED BY <1>2, <2>1
<1>4. t \in Seq(Token) /\ Len(t) = ARR_CNT + 1 /\ Chain(bytes, t) /\ ARR_CNT \in Nat /\ ARR_CNT > 3
  <2>. HIDE DEF bytes
  <2>. QED BY <1>2, TokensAre DEF M!MessagesConstants
<1>5. \A b \in 0 .. n - 1 : last + b \in M!LineEnds =>
        \E l \in Lines : Holds(bytes, b, l) /\ b + Len(l) <= n /\ last + b + Len(l) \in M!LineEnds
  BY <1>1, LineHeld
<1>. HIDE DEF t, bytes, T
<1>6. ASSUME NEW j \in 1 .. ARR_CNT, t[j].end = n
      PROVE  t[ARR_CNT + 1].start = t[ARR_CNT + 1].end
  <2>1. j \in 1 .. Len(t) /\ ARR_CNT + 1 \in j + 1 .. Len(t)
    BY <1>4
  <2>2. \A k \in j + 1 .. Len(t) : t[k] = [start |-> n, end |-> n]
    BY <1>2, <1>3, <1>4, <1>6, <2>1, Spent
  <2>3. t[ARR_CNT + 1] = [start |-> n, end |-> n]
    BY <2>1, <2>2
  <2>. QED BY <2>3
<1>7. ASSUME NEW b \in Nat, NEW l \in Lines, Holds(bytes, b, l), NEW m \in {1, 3}, Begin(bytes, t, m) \in {b, b + 1}
      PROVE  t[m + 1].end = b + Len(l)
  <2>1. m \in 1 .. Len(t) /\ m + 1 <= Len(t)
    BY <1>4
  <2>2. l \in Seq(STRING)
    BY LineShape
  <2>3. PICK a : Shape(l, a)
    BY LineShape
  <2>. QED BY <1>2, <1>4, <1>7, <2>1, <2>2, <2>3, LineTaken
<1>8. PICK l \in Lines : Holds(bytes, 0, l) /\ 0 + Len(l) <= n /\ last + 0 + Len(l) \in M!LineEnds
  <2>1. 0 \in 0 .. n - 1 /\ last + 0 = last
    BY <1>1
  <2>. QED BY <1>5, <2>1
<1>. DEFINE L == Len(l)
<1>9. \A m \in Lines : Len(m) \in Nat /\ Len(m) > 0
  <2>1. ASSUME NEW m \in Lines PROVE Len(m) \in Nat /\ Len(m) > 0
    <3>1. PICK a : Shape(m, a)
      BY LineShape
    <3>2. m \in Seq(STRING)
      BY LineShape
    <3>3. Len(m) \in Nat /\ a \in 3 .. Len(m) - 1
      BY <3>1, <3>2 DEF Shape
    <3>. QED BY <3>3
  <2>. QED BY <2>1
<1>10. L \in Nat /\ L > 0 /\ L <= n /\ last + L \in M!LineEnds
  BY <1>1, <1>8, <1>9
<1>11. t[2].end = L
  <2>1. Begin(bytes, t, 1) \in {0, 0 + 1}
    BY DEF Begin
  <2>2. t[1 + 1].end = 0 + Len(l)
    BY <1>7, <1>8, <2>1
  <2>. QED BY <1>9, <2>2
<1>. HIDE DEF L
<1>12. CASE L = n
  <2>1. t[ARR_CNT + 1].start = t[ARR_CNT + 1].end
    BY <1>4, <1>6, <1>11, <1>12
  <2>. QED BY <2>1 DEF M!Stored, t, bytes
<1>13. CASE L # n
  <2>1. PICK k \in Lines : Holds(bytes, L, k) /\ L + Len(k) <= n /\ last + L + Len(k) \in M!LineEnds
    BY <1>1, <1>5, <1>10, <1>13, SMTT(30)
  <2>2. t[4].end = L + Len(k)
    <3>1. Begin(bytes, t, 3) \in {L, L + 1}
      BY <1>11 DEF Begin, M!Resume
    <3>2. t[3 + 1].end = L + Len(k)
      BY <1>7, <1>10, <2>1, <3>1
    <3>. QED BY <3>2
  <2>3. Len(k) \in Nat /\ Len(k) > 0
    BY <1>9
  <2>4. CASE L + Len(k) = n
    <3>1. t[ARR_CNT + 1].start = t[ARR_CNT + 1].end
      BY <1>4, <1>6, <2>2, <2>4
    <3>. QED BY <3>1 DEF M!Stored, t, bytes
  <2>5. CASE L + Len(k) # n
    <3>. DEFINE x == last + L
                y == last + L + Len(k)
                z == last + n
    <3>1. x \in T /\ y \in T /\ z \in T
      BY <1>1, <1>10, <2>1, <2>3 DEF T
    <3>2. x # y /\ y # z /\ x # z
      BY <1>1, <1>10, <1>13, <2>1, <2>3, <2>5
    <3>3. T \subseteq last + 1 .. last + n /\ last + 1 \in Int /\ last + n \in Int
      BY <1>1 DEF T
    <3>4. Cardinality(T) >= 3
      <4>. HIDE DEF x, y, z
      <4>. QED BY <3>1, <3>2, <3>3, ThreeEnds
    <3>5. IsFiniteSet(T)
      BY <3>3, FS_Interval, FS_Subset
    <3>6. Cardinality(T) \in Nat /\ Cardinality(T) <= 2
      BY <3>5, FS_CardinalityType DEF T
    <3>. QED BY <3>4, <3>6
  <2>. QED BY <2>4, <2>5
<1>. QED BY <1>12, <1>13

\* Everything that is promised of the thread.
ThreadInv == ReadInv /\ M!SendsFirstLine /\ M!TwoLinesFit

LEMMA ThreadInit == M!MessagesConstants /\ M!Init => ThreadInv
<1>. SUFFICES ASSUME M!MessagesConstants, M!Init PROVE ThreadInv
  OBVIOUS
<1>1. stream = <<>> /\ first = 1 /\ last = 0
  BY DEF M!Init
<1>2. StreamInv
  BY <1>1 DEF StreamInv, M!LineEnds
<1>3. ReadInv
  BY <1>1, <1>2, MsgInit DEF ReadInv
<1>4. ~ M!WholeLines
  BY <1>1 DEF M!WholeLines
<1>. QED BY <1>3, <1>4 DEF ThreadInv, M!SendsFirstLine, M!TwoLinesFit

LEMMA ThreadWrite ==
  ASSUME M!MessagesConstants, ThreadInv, M!Write
  PROVE  ThreadInv'
<1>1. first \in Nat /\ last \in Nat /\ Len(stream) \in Nat /\ first > 0 /\ first <= last + 1 /\ last <= Len(stream)
  BY LastIsNat DEF ThreadInv, ReadInv
<1>2. /\ stream' \in Seq(STRING) /\ Len(stream) <= Len(stream')
      /\ \A p \in 1 .. Len(stream) : stream'[p] = stream[p]
      /\ \A p \in 0 .. Len(stream) : p \in M!LineEnds' <=> p \in M!LineEnds
      /\ StreamInv'
  BY Grows DEF ThreadInv, ReadInv
<1>3. UNCHANGED <<first, last, msg, pArray, spilt, to, text, alive>>
  BY DEF M!Write
<1>4. MsgInv'
  BY MsgStep DEF M!Next, ThreadInv, ReadInv
<1>5. ReadInv'
  <2>1. Len(stream') \in Nat
    BY <1>2
  <2>. QED BY <1>1, <1>2, <1>3, <1>4, <2>1 DEF ReadInv
<1>6. \A p \in first .. last : p \in 1 .. Len(stream) /\ p \in 0 .. Len(stream)
  BY <1>1
<1>7. M!WholeLines' <=> M!WholeLines
  <2>1. first - 1 \in 0 .. Len(stream) /\ last \in 0 .. Len(stream)
    BY <1>1
  <2>. QED BY <1>2, <1>3, <2>1 DEF M!WholeLines
<1>8. \A k : M!Byte(k)' = M!Byte(k)
  <2>1. \A k : {p \in first .. last : stream'[p] = k} = {p \in first .. last : stream[p] = k}
    BY <1>2, <1>6
  <2>. QED BY <1>3, <2>1 DEF M!Byte
<1>9. M!LineEnds' \cap first' .. last' = M!LineEnds \cap first .. last
  BY <1>2, <1>3, <1>6
<1>10. M!SendsFirstLine'
  <2>1. M!Byte("]")' = M!Byte("]") /\ M!Byte("\n")' = M!Byte("\n")
    BY <1>8
  <2>. QED BY <1>3, <1>7, <2>1 DEF ThreadInv, M!SendsFirstLine
<1>11. M!TwoLinesFit'
  BY <1>3, <1>7, <1>9 DEF ThreadInv, M!TwoLinesFit
<1>. QED BY <1>5, <1>10, <1>11 DEF ThreadInv

LEMMA ThreadRead ==
  ASSUME M!MessagesConstants, ThreadInv, M!Read
  PROVE  ThreadInv'
<1>1. PICK n \in 1 .. SIZE :
        /\ last + n <= Len(stream) /\ alive
        /\ M!Receive(n)
        /\ IF pArray'[0] = M!Null THEN M!SegFault ELSE M!Sends
  BY DEF M!Read
<1>2. ReadInv /\ first \in Nat /\ last \in Nat /\ n \in Nat /\ n >= 1 /\ first > 0
  BY LastIsNat DEF ThreadInv, ReadInv, M!MessagesConstants
<1>3. first' = last + 1 /\ last' = last + n /\ stream' = stream
  BY <1>1 DEF M!Receive
<1>4. MsgInv'
  BY <1>2, MsgStep DEF M!Next, ReadInv
<1>5. StreamInv' /\ M!LineEnds' = M!LineEnds
  BY <1>2, <1>3 DEF ReadInv, StreamInv, LineAt, M!LineEnds
<1>6. ReadInv'
  BY <1>1, <1>2, <1>3, <1>4, <1>5 DEF ReadInv
<1>7. CASE ~ M!WholeLines'
  BY <1>6, <1>7 DEF ThreadInv, M!SendsFirstLine, M!TwoLinesFit
<1>8. CASE M!WholeLines'
  <2>1. last \in M!LineEnds /\ last + n \in M!LineEnds
    <3>1. first' - 1 = last /\ last' = last + n
      BY <1>2, <1>3
    <3>2. first' - 1 \in M!LineEnds' /\ last' \in M!LineEnds'
      BY <1>8 DEF M!WholeLines
    <3>3. M!LineEnds' = M!LineEnds
      BY <1>5
    <3>. QED BY <3>1, <3>2, <3>3
  <2>2. M!SendsFirstLine' /\ pArray'[0] # M!Null /\ (ARR_CNT \notin M!Stored(M!Tokens(M!Filled(n))) => ~ spilt') /\ M!Sends
    BY <1>1, <1>2, <2>1, WholeLinesRead
  <2>3. M!TwoLinesFit'
    <3>1. CASE Cardinality(M!LineEnds \cap last + 1 .. last + n) <= 2
      <4>1. ARR_CNT \notin M!Stored(M!Tokens(M!Filled(n)))
        BY <1>2, <2>1, <3>1, TwoLinesTokens
      <4>2. ~ spilt'
        BY <2>2, <4>1
      <4>3. alive' = TRUE
        BY <2>2, <4>2 DEF M!Sends
      <4>. QED BY <4>2, <4>3 DEF M!TwoLinesFit
    <3>2. CASE ~ (Cardinality(M!LineEnds \cap last + 1 .. last + n) <= 2)
      BY <1>3, <1>5, <3>2, SameCardinality DEF M!TwoLinesFit
    <3>. QED BY <3>1, <3>2
  <2>. QED BY <1>6, <2>2, <2>3 DEF ThreadInv
<1>. QED BY <1>7, <1>8

LEMMA ThreadStep == M!MessagesConstants /\ ThreadInv /\ [M!Next]_M!vars => ThreadInv'
<1>. SUFFICES ASSUME M!MessagesConstants, ThreadInv, [M!Next]_M!vars PROVE ThreadInv'
  OBVIOUS
<1>1. CASE UNCHANGED M!vars
  <2>1. MsgInv' /\ UNCHANGED <<stream, first, last, msg, pArray, spilt, to, text, alive>>
    BY <1>1, MsgStep DEF ThreadInv, ReadInv, M!vars
  <2>2. M!LineEnds' = M!LineEnds /\ \A k : M!Byte(k)' = M!Byte(k)
    BY <2>1 DEF M!LineEnds, M!Byte
  <2>3. StreamInv' /\ (M!WholeLines' <=> M!WholeLines)
    BY <2>1, <2>2 DEF ThreadInv, ReadInv, StreamInv, LineAt, M!WholeLines
  <2>4. M!Byte("]")' = M!Byte("]") /\ M!Byte("\n")' = M!Byte("\n")
    BY <2>2
  <2>. QED BY <2>1, <2>2, <2>3, <2>4 DEF ThreadInv, ReadInv, M!SendsFirstLine, M!TwoLinesFit
<1>2. CASE M!Next
  BY <1>2, ThreadWrite, ThreadRead DEF M!Next
<1>. QED BY <1>1, <1>2

\* A read() of whole lines sends the text of its first line to its address.
THEOREM FirstLineIsSent == M!Spec => []SendsFirstLine
<1>1. M!Init => ThreadInv
  BY PartsAssumption, ThreadInit
<1>2. ThreadInv /\ [M!Next]_M!vars => ThreadInv'
  BY PartsAssumption, ThreadStep
<1>3. ThreadInv => SendsFirstLine
  BY DEF ThreadInv, M!SendsFirstLine, SendsFirstLine
<1>. QED BY <1>1, <1>2, <1>3, PTL DEF M!Spec

\* Two whole lines in one read() stay inside pArray, and the thread lives.
THEOREM TwoJoinedFit == M!Spec => []TwoLinesFit
<1>1. M!Init => ThreadInv
  BY PartsAssumption, ThreadInit
<1>2. ThreadInv /\ [M!Next]_M!vars => ThreadInv'
  BY PartsAssumption, ThreadStep
<1>3. ThreadInv => TwoLinesFit
  BY DEF ThreadInv, M!TwoLinesFit, TwoLinesFit
<1>. QED BY <1>1, <1>2, <1>3, PTL DEF M!Spec

-----------------------------------------------------------------------------
(* SharedStrtok: the tokens that uncrossed threads take. *)

\* A place in a buffer, or none.
Places == S!All \X Nat

StrtokTypes ==
    /\ running \subseteq Threads /\ crossed \subseteq S!All
    /\ pc \in [S!All -> {"read", "call", "store", "use"}]
    /\ buf \in [S!All -> 0 .. 2] /\ i \in [S!All -> Nat]
    /\ tokens \in [S!All -> [{0, 1} -> Places]]
    /\ at \in [S!All -> Places] /\ olds \in Places

\* A buffer that is taken apart has a token, main's has two.
Filled ==
    \A t \in S!All :
        /\ pc[t] = "read" => i[t] = 0
        /\ pc[t] # "read" => buf[t] \in {1, 2} /\ (t = Main => buf[t] = 2)

\* What t has found when its next token is the k-th, counted from 0.
HasFound(t, k) ==
    /\ k <= buf[t]
    /\ k > 0 => tokens[t][0] = <<t, 1>>
    /\ k > 1 => tokens[t][1] = <<t, 2>>

\* As long as no other thread crossed, the static pointer is where the thread left it.
Uncrossed(t) ==
    /\ pc[t] \in {"call", "store"} => HasFound(t, i[t])
    /\ pc[t] = "call" /\ i[t] > 0 => olds = <<t, i[t] + 1>>
    /\ pc[t] = "store" => at[t] = <<t, i[t] + 1>>
    /\ pc[t] = "use" => S!Own(t)

\* What is read into an empty table is its owner's, and main's table stays filled.
Password ==
    /\ \A t \in Threads : pc[t] # "read" => t \in running
    /\ \/ tokens[Main][0] # S!Null /\ tokens[Main][1] # S!Null
       \/ running = {} /\ Main \notin crossed

StrtokInv == StrtokTypes /\ Filled /\ (\A t \in S!All \ crossed : Uncrossed(t)) /\ Password

LEMMA StrtokInit == S!StrtokConstants /\ S!Init => StrtokInv
<1>. SUFFICES ASSUME S!StrtokConstants, S!Init PROVE StrtokInv
  OBVIOUS
<1>1. S!Null \in Places
  BY DEF S!Null, Places, S!All
<1>2. StrtokTypes
  BY <1>1 DEF S!Init, StrtokTypes
<1>3. Filled /\ Password
  BY DEF S!Init, Filled, Password, S!All, S!StrtokConstants
<1>4. \A t \in S!All : Uncrossed(t)
  BY DEF S!Init, Uncrossed
<1>. QED BY <1>2, <1>3, <1>4 DEF StrtokInv

\* S!Null is no token that was found.
LEMMA NotNull == \A t, k : k \in Nat /\ k > 0 => <<t, k>> # S!Null
  BY DEF S!Null

\* Steps that touch neither the static pointer nor what another thread has of its own.
LEMMA UncrossedElsewhere ==
  ASSUME S!StrtokConstants, StrtokInv, NEW t \in S!All, NEW u \in S!All \ crossed, u # t,
         pc'[u] = pc[u], buf'[u] = buf[u], i'[u] = i[u], tokens'[u] = tokens[u], at'[u] = at[u],
         UNCHANGED olds \/ pc[u] = "read"
  PROVE  Uncrossed(u)'
<1>1. Uncrossed(u)
  BY DEF StrtokInv
<1>. QED BY <1>1 DEF Uncrossed, HasFound, S!Own

LEMMA ReadStep ==
  ASSUME S!StrtokConstants, StrtokInv, NEW t \in S!All, S!Read(t)
  PROVE  StrtokInv'
<1>1. PICK n \in {1, 2} : buf' = [buf EXCEPT ![t] = n] /\ (t = Main => n = 2)
  BY DEF S!Read
<1>2. /\ pc[t] = "read" /\ t \in running \cup {Main}
      /\ pc' = [pc EXCEPT ![t] = "call"] /\ crossed' = crossed \ {t}
      /\ UNCHANGED <<running, i, tokens, at, olds>>
  BY DEF S!Read
<1>3. StrtokTypes'
  <2>1. pc' \in [S!All -> {"read", "call", "store", "use"}] /\ buf' \in [S!All -> 0 .. 2]
    BY <1>1, <1>2 DEF StrtokInv, StrtokTypes
  <2>. QED BY <1>2, <2>1 DEF StrtokInv, StrtokTypes
<1>4. pc'[t] = "call" /\ buf'[t] = n /\ i[t] = 0 /\ \A u \in S!All \ {t} : pc'[u] = pc[u] /\ buf'[u] = buf[u]
  BY <1>1, <1>2 DEF StrtokInv, StrtokTypes, Filled
<1>5. Filled'
  BY <1>1, <1>2, <1>4 DEF StrtokInv, Filled
<1>6. ASSUME NEW u \in S!All \ crossed' PROVE Uncrossed(u)'
  <2>1. CASE u = t
    BY <1>1, <1>2, <1>4, <2>1 DEF Uncrossed, HasFound
  <2>2. CASE u # t
    BY <1>2, <1>4, <2>2, UncrossedElsewhere
  <2>. QED BY <2>1, <2>2
<1>7. Password'
  BY <1>2, <1>4 DEF StrtokInv, Password, S!StrtokConstants, S!All
<1>. QED BY <1>3, <1>5, <1>6, <1>7 DEF StrtokInv

\* The step of a thread in strtok() crosses all that are taking a buffer apart.
LEMMA CrossingStep ==
  ASSUME S!StrtokConstants, StrtokInv, NEW t \in S!All, S!Crosses(t), pc[t] # "read",
         UNCHANGED <<running, buf>>,
         \A u \in S!All \ {t} : UNCHANGED <<pc[u], i[u], tokens[u], at[u]>>,
         StrtokTypes', i'[t] = i[t] \/ pc'[t] # "read", pc'[t] # "read",
         t \notin crossed => Uncrossed(t)',
         t = Main => \A k \in {0, 1} : tokens'[t][k] = tokens[t][k] \/ tokens'[t][k] # S!Null
  PROVE  StrtokInv'
<1>1. crossed' = crossed \cup {u \in S!All \ {t} : pc[u] # "read"}
  BY DEF S!Crosses
<1>2. Filled'
  BY DEF StrtokInv, Filled
<1>3. ASSUME NEW u \in S!All \ crossed' PROVE Uncrossed(u)'
  <2>1. CASE u = t
    BY <1>1, <2>1
  <2>2. CASE u # t
    <3>1. u \notin crossed /\ pc[u] = "read"
      BY <1>1, <2>2
    <3>. QED BY <2>2, <3>1, UncrossedElsewhere
  <2>. QED BY <2>1, <2>2
<1>4. Password'
  <2>1. \A u \in Threads : pc'[u] # "read" => u \in running'
    <3>1. \A u \in Threads : pc'[u] # "read" => pc[u] # "read"
      BY DEF S!All
    <3>. QED BY <3>1 DEF StrtokInv, Password
  <2>2. CASE tokens[Main][0] # S!Null /\ tokens[Main][1] # S!Null
    <3>1. tokens'[Main][0] # S!Null /\ tokens'[Main][1] # S!Null
      <4>1. CASE t = Main
        BY <2>2, <4>1
      <4>2. CASE t # Main
        BY <2>2, <4>2 DEF S!All
      <4>. QED BY <4>1, <4>2
    <3>. QED BY <2>1, <3>1 DEF Password
  <2>3. CASE running = {} /\ Main \notin crossed
    <3>1. t = Main
      BY <2>3 DEF StrtokInv, Password, S!All
    <3>2. Main \notin crossed'
      BY <1>1, <2>3, <3>1
    <3>. QED BY <2>1, <2>3, <3>2 DEF Password
  <2>. QED BY <2>1, <2>2, <2>3 DEF StrtokInv, Password
<1>. QED BY <1>2, <1>3, <1>4 DEF StrtokInv

LEMMA LoadStep ==
  ASSUME S!StrtokConstants, StrtokInv, NEW t \in S!All, S!Load(t)
  PROVE  StrtokInv'
<1>1. /\ pc[t] = "call" /\ at' = [at EXCEPT ![t] = IF i[t] = 0 THEN <<t, 1>> ELSE olds]
      /\ pc' = [pc EXCEPT ![t] = "store"] /\ S!Crosses(t)
      /\ UNCHANGED <<running, buf, i, tokens, olds>>
  BY DEF S!Load
<1>2. /\ pc \in [S!All -> {"read", "call", "store", "use"}] /\ at \in [S!All -> Places]
      /\ <<t, 1>> \in Places /\ olds \in Places /\ i[t] \in Nat
  BY DEF StrtokInv, StrtokTypes, Places
<1>3. /\ pc'[t] = "store" /\ at'[t] = IF i[t] = 0 THEN <<t, 1>> ELSE olds
      /\ \A u \in S!All \ {t} : pc'[u] = pc[u] /\ at'[u] = at[u]
  BY <1>1, <1>2
<1>4. StrtokTypes'
  <2>1. crossed' \subseteq S!All
    BY <1>1 DEF S!Crosses, StrtokInv, StrtokTypes
  <2>2. pc' \in [S!All -> {"read", "call", "store", "use"}] /\ at' \in [S!All -> Places]
    BY <1>1, <1>2
  <2>. QED BY <1>1, <2>1, <2>2 DEF StrtokInv, StrtokTypes
<1>5. ASSUME t \notin crossed PROVE Uncrossed(t)'
  <2>1. Uncrossed(t)
    BY <1>5 DEF StrtokInv
  <2>2. at'[t] = <<t, i[t] + 1>>
    BY <1>1, <1>2, <1>3, <2>1 DEF Uncrossed
  <2>. QED BY <1>1, <1>3, <2>1, <2>2 DEF Uncrossed, HasFound
<1>. QED BY <1>1, <1>3, <1>4, <1>5, CrossingStep

LEMMA ZeroOrOne ==
  /\ \A n \in Nat : n <= 1 => n = 0 \/ n = 1
  /\ \A n \in Nat : n + 1 <= 1 \/ n + 1 <= 2 => n = 0 \/ n = 1
  OBVIOUS

LEMMA StoreStep ==
  ASSUME S!StrtokConstants, StrtokInv, NEW t \in S!All, S!Store(t)
  PROVE  StrtokInv'
<1>1. /\ pc[t] = "store" /\ at' = [at EXCEPT ![t] = S!Null] /\ S!Crosses(t)
      /\ UNCHANGED <<running, buf>>
  BY DEF S!Store
<1>2. /\ pc \in [S!All -> {"read", "call", "store", "use"}] /\ at \in [S!All -> Places]
      /\ i \in [S!All -> Nat] /\ tokens \in [S!All -> [{0, 1} -> Places]] /\ buf \in [S!All -> 0 .. 2]
      /\ S!Null \in Places /\ at[t] \in Places /\ i[t] \in Nat /\ buf[t] \in {1, 2}
      /\ crossed \subseteq S!All
  BY <1>1 DEF StrtokInv, StrtokTypes, Filled, Places, S!Null, S!All
<1>3. crossed' \subseteq S!All /\ at' \in [S!All -> Places] /\ \A u \in S!All \ {t} : at'[u] = at[u]
  BY <1>1, <1>2 DEF S!Crosses
<1>4. CASE S!Found(t) /\ S!Taken(t) /\ olds' = <<at[t][1], at[t][2] + 1>>
  <2>1. /\ i' = [i EXCEPT ![t] = @ + 1]
        /\ tokens' = IF i[t] <= 1 THEN [tokens EXCEPT ![t][i[t]] = at[t]] ELSE tokens
        /\ pc' = [pc EXCEPT ![t] = IF i[t] >= TOKENS THEN "use" ELSE "call"]
    BY <1>4 DEF S!Taken
  <2>2. /\ pc' \in [S!All -> {"read", "call", "store", "use"}] /\ i' \in [S!All -> Nat]
        /\ i'[t] = i[t] + 1 /\ pc'[t] = IF i[t] >= TOKENS THEN "use" ELSE "call"
        /\ \A u \in S!All \ {t} : pc'[u] = pc[u] /\ i'[u] = i[u]
    BY <1>2, <2>1
  <2>3. /\ tokens' \in [S!All -> [{0, 1} -> Places]]
        /\ \A u \in S!All \ {t} : tokens'[u] = tokens[u]
        /\ \A k \in {0, 1} : tokens'[t][k] = IF k = i[t] THEN at[t] ELSE tokens[t][k]
    <3>1. CASE i[t] <= 1
      <4>1. i[t] \in {0, 1}
        BY <1>2, <3>1, ZeroOrOne
      <4>2. tokens' = [tokens EXCEPT ![t] = [tokens[t] EXCEPT ![i[t]] = at[t]]]
        BY <2>1, <3>1
      <4>. QED BY <1>2, <4>1, <4>2
    <3>2. CASE ~ (i[t] <= 1)
      <4>1. tokens' = tokens /\ i[t] \notin {0, 1}
        BY <1>2, <2>1, <3>2
      <4>. QED BY <1>2, <4>1
    <3>. QED BY <3>1, <3>2
  <2>4. olds' \in Places
    BY <1>2, <1>4 DEF Places
  <2>5. StrtokTypes'
    BY <1>1, <1>3, <2>2, <2>3, <2>4 DEF StrtokInv, StrtokTypes
  <2>6. at[t] # S!Null
    BY <1>4 DEF S!Found
  <2>7. ASSUME t \notin crossed PROVE Uncrossed(t)'
    <3>1. HasFound(t, i[t]) /\ at[t] = <<t, i[t] + 1>>
      BY <1>1, <2>7 DEF StrtokInv, Uncrossed
    <3>2. i[t] + 1 <= buf[t]
      BY <1>4, <3>1 DEF S!Found
    <3>3. i[t] = 0 \/ i[t] = 1
      <4>1. CASE buf[t] = 1
        BY <1>2, <3>2, <4>1, ZeroOrOne
      <4>2. CASE buf[t] = 2
        BY <1>2, <3>2, <4>2, ZeroOrOne
      <4>. QED BY <1>2, <4>1, <4>2
    <3>4. pc'[t] = "call"
      BY <2>2, <3>3 DEF S!StrtokConstants
    <3>5. olds' = <<t, i[t] + 2>>
      BY <1>2, <1>4, <3>1
    <3>6. /\ i'[t] = i[t] + 1 /\ i'[t] <= buf'[t]
          /\ tokens'[t][0] = <<t, 1>>
          /\ i[t] = 1 => tokens'[t][1] = <<t, 2>>
      BY <1>1, <2>2, <2>3, <3>1, <3>2, <3>3 DEF HasFound
    <3>7. olds' = <<t, i'[t] + 1>>
      BY <1>2, <2>2, <3>5
    <3>8. HasFound(t, i[t])'
      <4>1. i'[t] > 1 => i[t] = 1
        BY <3>3, <3>6
      <4>. QED BY <3>6, <4>1 DEF HasFound
    <3>. QED BY <3>4, <3>7, <3>8 DEF Uncrossed
  <2>8. \A k \in {0, 1} : tokens'[t][k] = tokens[t][k] \/ tokens'[t][k] # S!Null
    BY <2>3, <2>6
  <2>9. pc'[t] # "read"
    BY <2>2
  <2>. QED BY <1>1, <1>3, <2>2, <2>3, <2>5, <2>7, <2>8, <2>9, CrossingStep
<1>5. CASE ~ S!Found(t) /\ olds' = at[t] /\ pc' = [pc EXCEPT ![t] = "use"] /\ UNCHANGED <<i, tokens>>
  <2>1. StrtokTypes'
    <3>1. pc' \in [S!All -> {"read", "call", "store", "use"}]
      BY <1>2, <1>5
    <3>. QED BY <1>1, <1>2, <1>3, <1>5, <3>1 DEF StrtokInv, StrtokTypes
  <2>2. pc'[t] = "use" /\ \A u \in S!All \ {t} : pc'[u] = pc[u]
    BY <1>2, <1>5
  <2>3. ASSUME t \notin crossed PROVE Uncrossed(t)'
    <3>1. HasFound(t, i[t]) /\ at[t] = <<t, i[t] + 1>>
      BY <1>1, <2>3 DEF StrtokInv, Uncrossed
    <3>2. at[t] # S!Null
      BY <1>2, <3>1, NotNull
    <3>3. ~ (i[t] + 1 <= buf[t])
      BY <1>5, <3>1, <3>2 DEF S!Found
    <3>4. i[t] = buf[t]
      BY <1>2, <3>1, <3>3 DEF HasFound
    <3>5. S!Own(t)
      BY <1>2, <3>1, <3>4 DEF HasFound, S!Own
    <3>6. S!Own(t)'
      BY <1>1, <1>5, <3>5 DEF S!Own
    <3>. QED BY <2>2, <3>6 DEF Uncrossed
  <2>. QED BY <1>1, <1>3, <1>5, <2>1, <2>2, <2>3, CrossingStep
<1>. QED BY <1>4, <1>5 DEF S!Store

LEMMA LoginStep ==
  ASSUME S!StrtokConstants, StrtokInv, S!Login
  PROVE  StrtokInv'
<1>1. /\ pc[Main] = "use" /\ pc' = [pc EXCEPT ![Main] = "read"] /\ i' = [i EXCEPT ![Main] = 0]
      /\ UNCHANGED <<buf, tokens, at, olds, crossed>>
      /\ running' \subseteq Threads /\ running \subseteq running'
      /\ running' = running \/ S!Own(Main)
  BY DEF S!Login, StrtokInv, StrtokTypes
<1>2. Main \in S!All /\ Main \notin Threads /\ Threads \subseteq S!All
  BY DEF S!All, S!StrtokConstants
<1>3. StrtokTypes'
  <2>1. pc' \in [S!All -> {"read", "call", "store", "use"}] /\ i' \in [S!All -> Nat]
    BY <1>1 DEF StrtokInv, StrtokTypes
  <2>. QED BY <1>1, <2>1 DEF StrtokInv, StrtokTypes
<1>4. pc'[Main] = "read" /\ i'[Main] = 0 /\ \A u \in S!All \ {Main} : pc'[u] = pc[u] /\ i'[u] = i[u]
  BY <1>1, <1>2 DEF StrtokInv, StrtokTypes
<1>5. Filled'
  BY <1>1, <1>4 DEF StrtokInv, Filled
<1>6. ASSUME NEW u \in S!All \ crossed' PROVE Uncrossed(u)'
  <2>1. CASE u = Main
    BY <1>4, <2>1 DEF Uncrossed
  <2>2. CASE u # Main
    BY <1>1, <1>2, <1>4, <2>2, UncrossedElsewhere
  <2>. QED BY <2>1, <2>2
<1>7. Password'
  <2>1. \A u \in Threads : pc'[u] # "read" => u \in running'
    BY <1>1, <1>2, <1>4 DEF StrtokInv, Password
  <2>2. CASE S!Own(Main)
    <3>1. buf[Main] = 2
      BY <1>1, <1>2 DEF StrtokInv, Filled
    <3>2. tokens[Main][0] # S!Null /\ tokens[Main][1] # S!Null
      BY <2>2, <3>1, NotNull DEF S!Own
    <3>. QED BY <1>1, <2>1, <3>2 DEF Password
  <2>3. CASE running' = running
    BY <1>1, <2>1, <2>3 DEF StrtokInv, Password
  <2>. QED BY <1>1, <2>2, <2>3
<1>. QED BY <1>3, <1>5, <1>6, <1>7 DEF StrtokInv

LEMMA SendStep ==
  ASSUME S!StrtokConstants, StrtokInv, NEW t \in S!All, S!Send(t)
  PROVE  StrtokInv'
<1>1. /\ t \in Threads /\ t # Main /\ pc' = [pc EXCEPT ![t] = "read"]
      /\ buf' = [buf EXCEPT ![t] = 0] /\ i' = [i EXCEPT ![t] = 0]
      /\ UNCHANGED <<running, tokens, at, olds, crossed>>
  BY DEF S!Send, S!StrtokConstants
<1>2. StrtokTypes'
  <2>1. /\ pc' \in [S!All -> {"read", "call", "store", "use"}] /\ i' \in [S!All -> Nat]
        /\ buf' \in [S!All -> 0 .. 2]
    BY <1>1 DEF StrtokInv, StrtokTypes
  <2>. QED BY <1>1, <2>1 DEF StrtokInv, StrtokTypes
<1>3. /\ pc'[t] = "read" /\ i'[t] = 0
      /\ \A u \in S!All \ {t} : pc'[u] = pc[u] /\ i'[u] = i[u] /\ buf'[u] = buf[u]
  BY <1>1 DEF StrtokInv, StrtokTypes
<1>4. Filled'
  BY <1>1, <1>3 DEF StrtokInv, Filled
<1>5. ASSUME NEW u \in S!All \ crossed' PROVE Uncrossed(u)'
  <2>1. CASE u = t
    BY <1>3, <2>1 DEF Uncrossed
  <2>2. CASE u # t
    BY <1>1, <1>3, <2>2, UncrossedElsewhere
  <2>. QED BY <2>1, <2>2
<1>6. Password'
  BY <1>1, <1>3 DEF StrtokInv, Password, S!All
<1>. QED BY <1>2, <1>4, <1>5, <1>6 DEF StrtokInv

LEMMA LeaveStep ==
  ASSUME S!StrtokConstants, StrtokInv, NEW t \in S!All, S!Leave(t)
  PROVE  StrtokInv'
<1>1. /\ t \in running /\ pc[t] = "read" /\ running' = running \ {t}
      /\ tokens' = [tokens EXCEPT ![t] = [k \in {0, 1} |-> S!Null]]
      /\ UNCHANGED <<pc, buf, i, at, olds, crossed>>
  BY DEF S!Leave
<1>2. t \in Threads /\ t # Main /\ running \subseteq Threads /\ Main \in S!All /\ S!Null \in Places
  BY <1>1 DEF StrtokInv, StrtokTypes, S!StrtokConstants, S!Null, Places, S!All
<1>3. StrtokTypes' /\ \A u \in S!All \ {t} : tokens'[u] = tokens[u]
  <2>1. tokens' \in [S!All -> [{0, 1} -> Places]] /\ \A u \in S!All \ {t} : tokens'[u] = tokens[u]
    BY <1>1, <1>2 DEF StrtokInv, StrtokTypes
  <2>. QED BY <1>1, <1>2, <2>1 DEF StrtokInv, StrtokTypes
<1>4. Filled'
  BY <1>1 DEF StrtokInv, Filled
<1>5. ASSUME NEW u \in S!All \ crossed' PROVE Uncrossed(u)'
  <2>1. CASE u = t
    BY <1>1, <2>1 DEF Uncrossed
  <2>2. CASE u # t
    BY <1>1, <1>3, <2>2, UncrossedElsewhere
  <2>. QED BY <2>1, <2>2
<1>6. Password'
  <2>1. tokens'[Main] = tokens[Main]
    BY <1>2, <1>3
  <2>2. \A u \in Threads : pc'[u] # "read" => u \in running'
    BY <1>1 DEF StrtokInv, Password
  <2>3. running = {} => running' = {}
    BY <1>1
  <2>. QED BY <1>1, <2>1, <2>2, <2>3 DEF StrtokInv, Password
<1>. QED BY <1>3, <1>4, <1>5, <1>6 DEF StrtokInv

LEMMA StrtokStep == S!StrtokConstants /\ StrtokInv /\ [S!Next]_S!vars => StrtokInv'
<1>. SUFFICES ASSUME S!StrtokConstants, StrtokInv, [S!Next]_S!vars PROVE StrtokInv'
  OBVIOUS
<1>1. CASE UNCHANGED S!vars
  BY <1>1 DEF S!vars, StrtokInv, StrtokTypes, Filled, Uncrossed, HasFound, S!Own, Password
<1>2. CASE S!Next
  BY <1>2, ReadStep, LoadStep, StoreStep, LoginStep, SendStep, LeaveStep DEF S!Next, S!Parses
<1>. QED BY <1>1, <1>2

\* A message is sent to its own address with its own text unless another thread called strtok()
\* while it was taken apart, whatever earlier crossings left in the pointer and in pArray.
THEOREM TokensAreOwn == S!Spec => []OwnUnlessCrossed
<1>1. S!Init => StrtokInv
  BY PartsAssumption, StrtokInit
<1>2. StrtokInv /\ [S!Next]_S!vars => StrtokInv'
  BY PartsAssumption, StrtokStep
<1>3. StrtokInv => OwnUnlessCrossed
  BY DEF StrtokInv, Uncrossed, S!OwnUnlessCrossed, OwnUnlessCrossed
<1>. QED BY <1>1, <1>2, <1>3, PTL DEF S!Spec

\* main compares a password with a token, never with a null pointer.
THEOREM PasswordThere == S!Spec => []LoginHasPassword
<1>1. S!Init => StrtokInv
  BY PartsAssumption, StrtokInit
<1>2. StrtokInv /\ [S!Next]_S!vars => StrtokInv'
  BY PartsAssumption, StrtokStep
<1>3. StrtokInv => LoginHasPassword
  <2>. SUFFICES ASSUME StrtokInv, pc[Main] = "use"
                PROVE  tokens[Main][0] # S!Null /\ tokens[Main][1] # S!Null
    BY DEF S!LoginHasPassword, LoginHasPassword
  <2>1. CASE Main \notin crossed
    <3>1. S!Own(Main) /\ buf[Main] = 2
      BY <2>1 DEF StrtokInv, Uncrossed, Filled, S!All
    <3>2. <<Main, 1>> # S!Null /\ <<Main, 2>> # S!Null
      BY NotNull
    <3>3. \A k \in 1 .. 2 : tokens[Main][k - 1] = <<Main, k>>
      BY <3>1 DEF S!Own
    <3>4. 1 \in 1 .. 2 /\ 2 \in 1 .. 2 /\ 1 - 1 = 0 /\ 2 - 1 = 1
      OBVIOUS
    <3>5. tokens[Main][0] = <<Main, 1>> /\ tokens[Main][1] = <<Main, 2>>
      BY <3>3, <3>4
    <3>. QED BY <3>2, <3>5
  <2>. QED BY <2>1 DEF StrtokInv, Password
<1>. QED BY <1>1, <1>2, <1>3, PTL DEF S!Spec

\* In the run of MCServerParts each part behaves as it does alone.
THEOREM PartsAsAlone == PartsSpec => Spec /\ M!Spec /\ S!Spec
<1>1. PartsInit => Init /\ M!Init /\ S!Init
  BY DEF PartsInit
<1>2. [PartsNext]_<<part, vars, messages, strtok>> => [Next]_vars /\ [M!Next]_M!vars /\ [S!Next]_S!vars
  BY DEF PartsNext, vars, messages, M!vars, strtok, S!vars
<1>. QED BY <1>1, <1>2, PTL DEF PartsSpec, Spec, M!Spec, S!Spec
=============================================================================
