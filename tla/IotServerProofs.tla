--------------------------- MODULE IotServerProofs ---------------------------
(****************************************************************************)
(* What IotServer guarantees for every number of clients, slots and         *)
(* descriptors: type correctness, mutual exclusion on mutx, that clnt_cnt   *)
(* counts the running threads and never exceeds MAX_CLNT, and the           *)
(* refinement of SessionPool; then, from IsolationInv, that no session      *)
(* reads, closes or overwrites another's, that only refusals leave a        *)
(* descriptor behind, that whoever is online has a thread, and to whom a    *)
(* line can be delivered.                                                   *)
(****************************************************************************)
EXTENDS IotServer, FiniteSetTheorems, SequenceTheorems, TLAPS

LEMMA ConstantTypes ==
    /\ MAX_CLNT \in Nat \ {0}
    /\ FdLimit \in Nat
    /\ SendMax \in Nat
    /\ IsFiniteSet(Conns)
    /\ Main \notin Conns
    /\ None \notin Conns
    /\ None # Main
BY ServerAssumption

LEMMA SlotTypes ==
    /\ Registered \subseteq Slots
    /\ 0 \in Slots
    /\ \A s \in Slots : s \in Int /\ 0 <= s /\ s < MAX_CLNT
BY ConstantTypes DEF Registered, Slots

LEMMA MessageTypes ==
    /\ NoMessage \in Messages
    /\ Logins \subseteq Messages
    /\ Routed \subseteq Messages
    /\ \A m \in Messages : m.to \in Addressees /\ [m EXCEPT !.ok = FALSE] \in Messages
    /\ "unknown" \in Addressees
<1>1. NoMessage \in Messages
    BY DEF NoMessage, Messages, Addressees
<1>2. Logins \subseteq Messages
    BY <1>1 DEF Logins, Messages, Addressees
<1>3. Routed \subseteq Messages
    BY DEF Routed, Messages, Addressees
<1>4. \A m \in Messages : m.to \in Addressees /\ [m EXCEPT !.ok = FALSE] \in Messages
    BY DEF Messages
<1> QED
    BY <1>1, <1>2, <1>3, <1>4 DEF Addressees

LEMMA FileType ==
    ASSUME KernelOK, NEW f
    PROVE  File(f) \in Conns \cup {None}
BY DEF KernelOK, File, Fds

LEMMA ReceiveType ==
    ASSUME KernelOK, NEW c \in Conns, Receive(c)
    PROVE  inq' \in [Conns -> Seq(Messages)] /\ Head(inq[c]) \in Messages
<1>1. inq[c] \in Seq(Messages) /\ inq[c] # <<>>
    BY DEF KernelOK, Receive
<1>2. Len(inq[c]) \in Nat \ {0} /\ Head(inq[c]) \in Messages
    BY <1>1
<1>3. \A k \in 1 .. Len(inq[c]) : SubSeq(inq[c], k + 1, Len(inq[c])) \in Seq(Messages)
    BY <1>1, <1>2
<1>4. PICK k \in 1 .. Len(inq[c]) : inq' = [inq EXCEPT ![c] = SubSeq(@, k + 1, Len(@))]
    BY DEF Receive
<1>5. inq' = [inq EXCEPT ![c] = SubSeq(inq[c], k + 1, Len(inq[c]))]
    BY <1>4 DEF KernelOK
<1> QED
    BY <1>2, <1>3, <1>5 DEF KernelOK

LEMMA IdType == \A s \in Registered : Id(s) \in Ids
BY DEF Ids

LEMMA InitTypeOK == Init => TypeOK
<1> SUFFICES ASSUME Init PROVE TypeOK
    OBVIOUS
<1>1. KernelOK
    BY ConstantTypes DEF Init, KernelOK
<1>2. TableOK
    BY SlotTypes DEF Init, TableOK
<1>3. MainOK
    BY MessageTypes DEF Init, MainOK
<1>4. ThreadOK
    BY MessageTypes, ConstantTypes DEF Init, ThreadOK
<1>5. AnswerOK
    BY DEF Init, AnswerOK
<1> QED
    BY <1>1, <1>2, <1>3, <1>4, <1>5 DEF Init, TypeOK

LEMMA ConnectType ==
    ASSUME TypeOK, NEW c \in Conns, Connect(c)
    PROVE  KernelOK' /\ TableOK' /\ MainOK' /\ ThreadOK' /\ AnswerOK'
<1> USE SlotTypes, MessageTypes, ConstantTypes DEF TypeOK, kernel, local, mlocal, table, answers
<1>1. KernelOK'
    BY DEF Connect, KernelOK
<1>2. TableOK'
    BY DEF Connect, TableOK
<1>3. MainOK'
    BY DEF Connect, MainOK
<1>4. ThreadOK'
    BY DEF Connect, ThreadOK
<1>5. AnswerOK'
    BY DEF Connect, AnswerOK
<1> QED
    BY <1>1, <1>2, <1>3, <1>4, <1>5

LEMMA SendLoginType ==
    ASSUME TypeOK, NEW c \in Conns, SendLogin(c)
    PROVE  KernelOK' /\ TableOK' /\ MainOK' /\ ThreadOK' /\ AnswerOK'
<1> USE SlotTypes, MessageTypes, ConstantTypes DEF TypeOK, kernel, local, mlocal, table, answers
<1>1. KernelOK'
    BY DEF SendLogin, KernelOK
<1>2. TableOK'
    BY DEF SendLogin, TableOK
<1>3. MainOK'
    BY DEF SendLogin, MainOK
<1>4. ThreadOK'
    BY DEF SendLogin, ThreadOK
<1>5. AnswerOK'
    BY DEF SendLogin, AnswerOK
<1> QED
    BY <1>1, <1>2, <1>3, <1>4, <1>5

LEMMA SendMessageType ==
    ASSUME TypeOK, NEW c \in Conns, SendMessage(c)
    PROVE  KernelOK' /\ TableOK' /\ MainOK' /\ ThreadOK' /\ AnswerOK'
<1> USE SlotTypes, MessageTypes, ConstantTypes DEF TypeOK, kernel, local, mlocal, table, answers
<1>1. KernelOK'
    BY DEF SendMessage, KernelOK
<1>2. TableOK'
    BY DEF SendMessage, TableOK
<1>3. MainOK'
    BY DEF SendMessage, MainOK
<1>4. ThreadOK'
    BY DEF SendMessage, ThreadOK
<1>5. AnswerOK'
    BY DEF SendMessage, AnswerOK
<1> QED
    BY <1>1, <1>2, <1>3, <1>4, <1>5

LEMMA CloseType ==
    ASSUME TypeOK, NEW c \in Conns, Close(c)
    PROVE  KernelOK' /\ TableOK' /\ MainOK' /\ ThreadOK' /\ AnswerOK'
<1> USE SlotTypes, MessageTypes, ConstantTypes DEF TypeOK, kernel, local, mlocal, table, answers
<1>1. KernelOK'
    BY DEF Close, KernelOK
<1>2. TableOK'
    BY DEF Close, TableOK
<1>3. MainOK'
    BY DEF Close, MainOK
<1>4. ThreadOK'
    BY DEF Close, ThreadOK
<1>5. AnswerOK'
    BY DEF Close, AnswerOK
<1> QED
    BY <1>1, <1>2, <1>3, <1>4, <1>5

LEMMA AcceptType ==
    ASSUME TypeOK, Accept
    PROVE  KernelOK' /\ TableOK' /\ MainOK' /\ ThreadOK' /\ AnswerOK'
<1> USE SlotTypes, MessageTypes, ConstantTypes DEF TypeOK, kernel, local, mlocal, table, answers
<1>1. KernelOK'
    BY DEF Accept, NewFd, KernelOK
<1>2. TableOK'
    BY DEF Accept, NewFd, TableOK
<1>3. MainOK'
    BY DEF Accept, NewFd, MainOK, KernelOK
<1>4. ThreadOK'
    BY DEF Accept, NewFd, ThreadOK
<1>5. AnswerOK'
    BY DEF Accept, NewFd, AnswerOK
<1> QED
    BY <1>1, <1>2, <1>3, <1>4, <1>5

LEMMA CheckFullType ==
    ASSUME TypeOK, CheckFull
    PROVE  KernelOK' /\ TableOK' /\ MainOK' /\ ThreadOK' /\ AnswerOK'
<1> USE SlotTypes, MessageTypes, ConstantTypes DEF TypeOK, kernel, local, mlocal, table, answers
<1>1. KernelOK'
    BY DEF CheckFull, Reject, ToAccept, KernelOK
<1>2. TableOK'
    BY DEF CheckFull, Reject, ToAccept, TableOK
<1>3. MainOK'
    BY DEF CheckFull, Reject, ToAccept, MainOK
<1>4. ThreadOK'
    BY DEF CheckFull, Reject, ToAccept, ThreadOK
<1>5. AnswerOK'
    BY DEF CheckFull, Reject, ToAccept, AnswerOK, MainOK
<1> QED
    BY <1>1, <1>2, <1>3, <1>4, <1>5

LEMMA ReadLoginType ==
    ASSUME TypeOK, ReadLogin
    PROVE  KernelOK' /\ TableOK' /\ MainOK' /\ ThreadOK' /\ AnswerOK'
<1> USE SlotTypes, MessageTypes, ConstantTypes DEF TypeOK, kernel, local, mlocal, table, answers
<1>1. KernelOK'
    BY ReceiveType DEF ReadLogin, Reject, ToAccept, KernelOK, MainOK
<1>2. TableOK'
    BY DEF ReadLogin, Receive, Reject, ToAccept, TableOK
<1>3. MainOK'
    BY ReceiveType DEF ReadLogin, Reject, ToAccept, MainOK
<1>4. ThreadOK'
    BY DEF ReadLogin, Receive, Reject, ToAccept, ThreadOK
<1>5. AnswerOK'
    BY DEF ReadLogin, Reject, ToAccept, AnswerOK, MainOK
<1> QED
    BY <1>1, <1>2, <1>3, <1>4, <1>5

LEMMA ScanType ==
    ASSUME TypeOK, Scan
    PROVE  KernelOK' /\ TableOK' /\ MainOK' /\ ThreadOK' /\ AnswerOK'
<1> USE SlotTypes, MessageTypes, ConstantTypes DEF TypeOK, kernel, local, mlocal, table, answers
<1>1. KernelOK'
    BY DEF Scan, Answer, Reject, ToAccept, KernelOK
<1>2. TableOK'
    BY DEF Scan, Answer, Reject, ToAccept, TableOK
<1>3. MainOK'
    BY DEF Scan, Answer, Reject, ToAccept, MainOK
<1>4. ThreadOK'
    BY DEF Scan, Answer, Reject, ToAccept, ThreadOK
<1>5. AnswerOK'
    BY DEF Scan, Answer, Reject, ToAccept, AnswerOK, MainOK
<1> QED
    BY <1>1, <1>2, <1>3, <1>4, <1>5

LEMMA KickType ==
    ASSUME TypeOK, Kick
    PROVE  KernelOK' /\ TableOK' /\ MainOK' /\ ThreadOK' /\ AnswerOK'
<1> USE SlotTypes, MessageTypes, ConstantTypes DEF TypeOK, kernel, local, mlocal, table, answers
<1>1. KernelOK'
    BY DEF Kick, ToAccept, KernelOK
<1>2. TableOK'
    BY DEF Kick, ToAccept, TableOK, MainOK
<1>3. MainOK'
    BY DEF Kick, ToAccept, MainOK
<1>4. ThreadOK'
    BY DEF Kick, ToAccept, ThreadOK
<1>5. AnswerOK'
    BY DEF Kick, ToAccept, AnswerOK
<1> QED
    BY <1>1, <1>2, <1>3, <1>4, <1>5

LEMMA RegisterLockType ==
    ASSUME TypeOK, RegisterLock
    PROVE  KernelOK' /\ TableOK' /\ MainOK' /\ ThreadOK' /\ AnswerOK'
<1> USE SlotTypes, MessageTypes, ConstantTypes DEF TypeOK, kernel, local, mlocal, table, answers
<1>1. KernelOK'
    BY DEF RegisterLock, Threads, KernelOK
<1>2. TableOK'
    BY DEF RegisterLock, Threads, TableOK, MainOK, Fds
<1>3. MainOK'
    BY DEF RegisterLock, Threads, MainOK
<1>4. ThreadOK'
    BY DEF RegisterLock, Threads, ThreadOK
<1>5. AnswerOK'
    BY DEF RegisterLock, Threads, AnswerOK
<1> QED
    BY <1>1, <1>2, <1>3, <1>4, <1>5

LEMMA RegisterCountType ==
    ASSUME TypeOK, RegisterCount
    PROVE  KernelOK' /\ TableOK' /\ MainOK' /\ ThreadOK' /\ AnswerOK'
<1> USE SlotTypes, MessageTypes, ConstantTypes DEF TypeOK, kernel, local, mlocal, table, answers
<1>1. KernelOK'
    BY DEF RegisterCount, Threads, KernelOK
<1>2. TableOK'
    BY DEF RegisterCount, Threads, TableOK
<1>3. MainOK'
    BY DEF RegisterCount, Threads, MainOK
<1>4. ThreadOK'
    BY DEF RegisterCount, Threads, ThreadOK
<1>5. AnswerOK'
    BY DEF RegisterCount, Threads, AnswerOK
<1> QED
    BY <1>1, <1>2, <1>3, <1>4, <1>5

LEMMA SpawnType ==
    ASSUME TypeOK, Spawn
    PROVE  KernelOK' /\ TableOK' /\ MainOK' /\ ThreadOK' /\ AnswerOK'
<1> USE SlotTypes, MessageTypes, ConstantTypes DEF TypeOK, kernel, local, mlocal, table, answers
<1>1. KernelOK'
    BY DEF Spawn, Answer, ToAccept, KernelOK
<1>2. TableOK'
    BY DEF Spawn, Answer, ToAccept, TableOK
<1>3. MainOK'
    BY DEF Spawn, Answer, ToAccept, MainOK
<1>4. ThreadOK'
    BY DEF Spawn, Answer, ToAccept, ThreadOK, MainOK
<1>5. AnswerOK'
    BY DEF Spawn, Answer, ToAccept, AnswerOK
<1> QED
    BY <1>1, <1>2, <1>3, <1>4, <1>5

LEMMA EnterReadType ==
    ASSUME TypeOK, NEW c \in Conns, EnterRead(c)
    PROVE  KernelOK' /\ TableOK' /\ MainOK' /\ ThreadOK' /\ AnswerOK'
<1> USE SlotTypes, MessageTypes, ConstantTypes DEF TypeOK, kernel, local, mlocal, table, answers
<1>1. KernelOK'
    BY FileType DEF EnterRead, Goto, KernelOK
<1>2. TableOK'
    BY FileType DEF EnterRead, Goto, TableOK, KernelOK
<1>3. MainOK'
    BY FileType DEF EnterRead, Goto, MainOK, KernelOK
<1>4. ThreadOK'
  <2>1. File(fd[slot[c]]) \in Conns \cup {None}
    BY FileType
  <2> QED
    BY <2>1 DEF EnterRead, Goto, ThreadOK
<1>5. AnswerOK'
    BY FileType DEF EnterRead, Goto, AnswerOK, KernelOK
<1> QED
    BY <1>1, <1>2, <1>3, <1>4, <1>5

LEMMA ReadReturnsType ==
    ASSUME TypeOK, NEW c \in Conns, ReadReturns(c)
    PROVE  KernelOK' /\ TableOK' /\ MainOK' /\ ThreadOK' /\ AnswerOK'
<1> USE SlotTypes, MessageTypes, ConstantTypes DEF TypeOK, kernel, local, mlocal, table, answers
<1>1. KernelOK'
    BY ReceiveType DEF ReadReturns, Goto, KernelOK, ThreadOK
<1>2. TableOK'
    BY DEF ReadReturns, Goto, Receive, TableOK
<1>3. MainOK'
    BY DEF ReadReturns, Goto, Receive, MainOK
<1>4. ThreadOK'
  <2>1. rd[c] \in Conns /\ pc[c] = "blocked"
    BY DEF ReadReturns, ThreadOK
  <2>2. Receive(rd[c]) => Head(inq[rd[c]]).to \in Addressees
    BY <2>1, ReceiveType
  <2>3. fd[slot[c]] \in {-1, 0} \cup Fds
    BY DEF ThreadOK, TableOK
  <2> QED
    BY <2>1, <2>2, <2>3 DEF ReadReturns, Goto, ThreadOK
<1>5. AnswerOK'
    BY DEF ReadReturns, Goto, Receive, AnswerOK
<1> QED
    BY <1>1, <1>2, <1>3, <1>4, <1>5

LEMMA SendToSlotType ==
    ASSUME TypeOK, NEW c \in Conns, SendToSlot(c)
    PROVE  KernelOK' /\ TableOK' /\ MainOK' /\ ThreadOK' /\ AnswerOK'
<1> USE SlotTypes, MessageTypes, ConstantTypes DEF TypeOK, kernel, local, mlocal, table, answers
<1>1. KernelOK'
    BY FileType, IdType DEF SendToSlot, Write, KernelOK
<1>2. TableOK'
    BY FileType, IdType DEF SendToSlot, Write, TableOK, KernelOK
<1>3. MainOK'
    BY FileType, IdType DEF SendToSlot, Write, MainOK, KernelOK
<1>4. ThreadOK'
    BY FileType, IdType DEF SendToSlot, Write, ThreadOK, KernelOK
<1>5. AnswerOK'
  <2>1. idx[c] \in Slots
    BY DEF SendToSlot, ThreadOK, Slots
  <2>2. CASE Write(fd[idx[c]], Id(idx[c])) /\ File(fd[idx[c]]) # None
    <3>1. idx[c] \in Registered
      BY <2>1, <2>2 DEF File, TableOK, Fds
    <3>2. Id(idx[c]) \in Ids /\ File(fd[idx[c]]) \in Conns
      BY <3>1, <2>2, FileType, IdType
    <3> QED
      BY <2>2, <3>2 DEF SendToSlot, Write, AnswerOK
  <2> QED
    BY <2>2 DEF SendToSlot, Write, AnswerOK
<1> QED
    BY <1>1, <1>2, <1>3, <1>4, <1>5

LEMMA SendDoneType ==
    ASSUME TypeOK, NEW c \in Conns, SendDone(c)
    PROVE  KernelOK' /\ TableOK' /\ MainOK' /\ ThreadOK' /\ AnswerOK'
<1> USE SlotTypes, MessageTypes, ConstantTypes DEF TypeOK, kernel, local, mlocal, table, answers
<1>1. KernelOK'
    BY DEF SendDone, ToRead, Goto, KernelOK
<1>2. TableOK'
    BY DEF SendDone, ToRead, Goto, TableOK
<1>3. MainOK'
    BY DEF SendDone, ToRead, Goto, MainOK
<1>4. ThreadOK'
    BY DEF SendDone, ToRead, Goto, ThreadOK
<1>5. AnswerOK'
    BY DEF SendDone, ToRead, Goto, AnswerOK
<1> QED
    BY <1>1, <1>2, <1>3, <1>4, <1>5

LEMMA SendReplyType ==
    ASSUME TypeOK, NEW c \in Conns, SendReply(c)
    PROVE  KernelOK' /\ TableOK' /\ MainOK' /\ ThreadOK' /\ AnswerOK'
<1> USE SlotTypes, MessageTypes, ConstantTypes DEF TypeOK, kernel, local, mlocal, table, answers
<1>1. KernelOK'
    BY FileType, IdType DEF SendReply, Write, ToRead, Goto, KernelOK
<1>2. TableOK'
    BY FileType, IdType DEF SendReply, Write, ToRead, Goto, TableOK, KernelOK
<1>3. MainOK'
    BY FileType, IdType DEF SendReply, Write, ToRead, Goto, MainOK, KernelOK
<1>4. ThreadOK'
    BY FileType, IdType DEF SendReply, Write, ToRead, Goto, ThreadOK, KernelOK
<1>5. AnswerOK'
    BY FileType, IdType DEF SendReply, Write, ToRead, Goto, AnswerOK, ThreadOK
<1> QED
    BY <1>1, <1>2, <1>3, <1>4, <1>5

LEMMA CloseFdType ==
    ASSUME TypeOK, NEW c \in Conns, CloseFd(c)
    PROVE  KernelOK' /\ TableOK' /\ MainOK' /\ ThreadOK' /\ AnswerOK'
<1> USE SlotTypes, MessageTypes, ConstantTypes DEF TypeOK, kernel, local, mlocal, table, answers
<1>1. KernelOK'
    BY DEF CloseFd, Goto, KernelOK
<1>2. TableOK'
    BY DEF CloseFd, Goto, TableOK
<1>3. MainOK'
    BY DEF CloseFd, Goto, MainOK
<1>4. ThreadOK'
    BY DEF CloseFd, Goto, ThreadOK
<1>5. AnswerOK'
    BY DEF CloseFd, Goto, AnswerOK
<1> QED
    BY <1>1, <1>2, <1>3, <1>4, <1>5

LEMMA ExitLockType ==
    ASSUME TypeOK, NEW c \in Conns, ExitLock(c)
    PROVE  KernelOK' /\ TableOK' /\ MainOK' /\ ThreadOK' /\ AnswerOK'
<1> USE SlotTypes, MessageTypes, ConstantTypes DEF TypeOK, kernel, local, mlocal, table, answers
<1>1. KernelOK'
    BY DEF ExitLock, Goto, Threads, KernelOK
<1>2. TableOK'
    BY DEF ExitLock, Goto, Threads, TableOK
<1>3. MainOK'
    BY DEF ExitLock, Goto, Threads, MainOK
<1>4. ThreadOK'
    BY DEF ExitLock, Goto, Threads, ThreadOK
<1>5. AnswerOK'
    BY DEF ExitLock, Goto, Threads, AnswerOK
<1> QED
    BY <1>1, <1>2, <1>3, <1>4, <1>5

LEMMA ExitCountType ==
    ASSUME TypeOK, NEW c \in Conns, ExitCount(c)
    PROVE  KernelOK' /\ TableOK' /\ MainOK' /\ ThreadOK' /\ AnswerOK'
<1> USE SlotTypes, MessageTypes, ConstantTypes DEF TypeOK, kernel, local, mlocal, table, answers
<1>1. KernelOK'
    BY DEF ExitCount, Goto, Threads, KernelOK
<1>2. TableOK'
    BY DEF ExitCount, Goto, Threads, TableOK
<1>3. MainOK'
    BY DEF ExitCount, Goto, Threads, MainOK
<1>4. ThreadOK'
    BY DEF ExitCount, Goto, Threads, ThreadOK
<1>5. AnswerOK'
    BY DEF ExitCount, Goto, Threads, AnswerOK
<1> QED
    BY <1>1, <1>2, <1>3, <1>4, <1>5

LEMMA ExitClearType ==
    ASSUME TypeOK, NEW c \in Conns, ExitClear(c)
    PROVE  KernelOK' /\ TableOK' /\ MainOK' /\ ThreadOK' /\ AnswerOK'
<1> USE SlotTypes, MessageTypes, ConstantTypes DEF TypeOK, kernel, local, mlocal, table, answers
<1>1. KernelOK'
    BY DEF ExitClear, Goto, Threads, KernelOK
<1>2. TableOK'
    BY DEF ExitClear, Goto, Threads, TableOK, ThreadOK
<1>3. MainOK'
    BY DEF ExitClear, Goto, Threads, MainOK
<1>4. ThreadOK'
    BY DEF ExitClear, Goto, Threads, ThreadOK
<1>5. AnswerOK'
    BY DEF ExitClear, Goto, Threads, AnswerOK
<1> QED
    BY <1>1, <1>2, <1>3, <1>4, <1>5

LEMMA TypeStep == TypeOK /\ [Next]_vars => TypeOK'
<1> SUFFICES ASSUME TypeOK, [Next]_vars PROVE TypeOK'
    OBVIOUS
<1>1. CASE UNCHANGED vars
    BY <1>1 DEF vars, kernel, local, mlocal, table, answers, TypeOK, KernelOK, TableOK,
                MainOK, ThreadOK, AnswerOK
<1>2. ASSUME NEW c \in Conns, Client(c) PROVE TypeOK'
    BY <1>2, ConnectType, SendLoginType, SendMessageType, CloseType DEF Client, TypeOK
<1>3. ASSUME Server PROVE TypeOK'
  <2>1. alive' \in BOOLEAN
    BY <1>3 DEF Server, Scan, Spawn, Answer, TypeOK
  <2> QED
    BY <1>3, <2>1, AcceptType, CheckFullType, ReadLoginType, ScanType, KickType, RegisterLockType,
       RegisterCountType, SpawnType DEF Server, TypeOK
<1>4. ASSUME NEW c \in Conns, Thread(c) PROVE TypeOK'
  <2>1. alive' \in BOOLEAN
    BY <1>4 DEF Thread, EnterRead, ReadReturns, SendToSlot, SendDone, SendReply, Write, CloseFd,
                ExitLock, ExitCount, ExitClear, TypeOK
  <2> QED
    BY <1>4, <2>1, EnterReadType, ReadReturnsType, SendToSlotType, SendDoneType, SendReplyType,
       CloseFdType, ExitLockType, ExitCountType, ExitClearType DEF Thread, TypeOK
<1> QED
    BY <1>1, <1>2, <1>3, <1>4 DEF Next

\* Every variable keeps its type, and with it what the program counters of main
\* and of the client threads promise about their locals: a thread that runs has a
\* registered slot, a registered slot is never left at calloc's 0.
THEOREM TypeCorrect == Spec => []TypeOK
<1>1. Init => TypeOK
    BY InitTypeOK
<1>2. TypeOK /\ [Next]_vars => TypeOK'
    BY TypeStep
<1> QED
    BY <1>1, <1>2, PTL DEF Spec

-----------------------------------------------------------------------------
(* clnt_cnt: mutual exclusion, exact count, bound. *)

LEMMA CountedFinite ==
    ASSUME TypeOK
    PROVE  Counted \subseteq Conns /\ IsFiniteSet(Counted) /\ Cardinality(Counted) \in Nat
<1>1. Counted \subseteq Conns
    BY DEF Counted, TypeOK, MainOK
<1>2. IsFiniteSet(Counted)
    BY <1>1, ConstantTypes, FS_Subset
<1> QED
    BY <1>1, <1>2, FS_CardinalityType

\* Steps that touch neither the counter nor the mutex.
LEMMA CountFrame ==
    ASSUME TypeOK, CountInv, UNCHANGED <<mutx, clnt_cnt, tmp>>,
           Counted' = Counted, ConnectsOnce',
           mpc' = "count" <=> mpc = "count",
           mpc' \in {"login", "scan", "lock"} =>
               mpc \in {"login", "scan", "lock"} \/ clnt_cnt < MAX_CLNT,
           \A c \in Conns : pc'[c] = "dec" <=> pc[c] = "dec",
           \A c \in Conns : pc'[c] = "clear" <=> pc[c] = "clear"
    PROVE  CountInv'
BY DEF CountInv, MutexHeld, CountMatchesThreads, NeverOverfull

LEMMA InitCount == Init => CountInv
<1> SUFFICES ASSUME Init PROVE CountInv
    OBVIOUS
<1>1. Counted = {}
    BY DEF Init, Counted
<1>2. Cardinality(Counted) = 0
    BY <1>1, FS_EmptySet
<1> QED
    BY <1>2, ConstantTypes DEF Init, CountInv, MutexHeld, ConnectsOnce, CountMatchesThreads, NeverOverfull

LEMMA ClientCount ==
    ASSUME TypeOK, CountInv, NEW c \in Conns, Client(c)
    PROVE  CountInv'
<1>1. UNCHANGED <<mutx, clnt_cnt, tmp, mpc, cur, pc>>
    BY DEF Client, Connect, SendLogin, SendMessage, Close, table, mlocal, local
<1>2. ConnectsOnce'
    BY <1>1 DEF Client, Connect, SendLogin, SendMessage, Close, CountInv, ConnectsOnce,
                TypeOK, KernelOK
<1>3. Counted' = Counted
    BY <1>1 DEF Counted
<1> QED
    BY <1>1, <1>2, <1>3, CountFrame

LEMMA AcceptCount ==
    ASSUME TypeOK, CountInv, Accept
    PROVE  CountInv'
<1>1. UNCHANGED <<mutx, clnt_cnt, tmp, pc>>
    BY DEF Accept, kernel, table, local
<1>2. ConnectsOnce'
    BY ConstantTypes DEF Accept, kernel, table, local, CountInv, ConnectsOnce, TypeOK, KernelOK, MainOK
<1>3. Counted' = Counted
    BY <1>1 DEF Accept, kernel, table, local, Counted, CountInv, TypeOK, KernelOK, MainOK
<1>4. /\ mpc' = "count" <=> mpc = "count"
      /\ mpc' \in {"login", "scan", "lock"} =>
             mpc \in {"login", "scan", "lock"} \/ clnt_cnt < MAX_CLNT
    BY DEF Accept, kernel, table, local, TypeOK, TableOK
<1> QED
    BY <1>1, <1>2, <1>3, <1>4, CountFrame

LEMMA CheckFullCount ==
    ASSUME TypeOK, CountInv, CheckFull
    PROVE  CountInv'
<1>1. UNCHANGED <<mutx, clnt_cnt, tmp, pc>>
    BY DEF CheckFull, Reject, ToAccept, kernel, table, local
<1>2. ConnectsOnce'
    BY ConstantTypes DEF CheckFull, Reject, ToAccept, kernel, table, local, CountInv, ConnectsOnce, TypeOK, MainOK, KernelOK
<1>3. Counted' = Counted
    BY <1>1 DEF CheckFull, Reject, ToAccept, kernel, table, local, Counted, CountInv, TypeOK, MainOK
<1>4. /\ mpc' = "count" <=> mpc = "count"
      /\ mpc' \in {"login", "scan", "lock"} =>
             mpc \in {"login", "scan", "lock"} \/ clnt_cnt < MAX_CLNT
    BY ConstantTypes DEF CheckFull, Reject, ToAccept, TypeOK, TableOK
<1> QED
    BY <1>1, <1>2, <1>3, <1>4, CountFrame

LEMMA ReadLoginCount ==
    ASSUME TypeOK, CountInv, ReadLogin
    PROVE  CountInv'
<1>1. UNCHANGED <<mutx, clnt_cnt, tmp, pc>>
    BY DEF ReadLogin, Reject, ToAccept, kernel, table, local
<1>2. ConnectsOnce'
    BY ConstantTypes DEF ReadLogin, Reject, ToAccept, kernel, table, local, CountInv, ConnectsOnce, TypeOK, MainOK, KernelOK
<1>3. Counted' = Counted
    BY <1>1 DEF ReadLogin, Reject, ToAccept, kernel, table, local, Counted, CountInv, TypeOK, MainOK
<1>4. /\ mpc' = "count" <=> mpc = "count"
      /\ mpc' \in {"login", "scan", "lock"} =>
             mpc \in {"login", "scan", "lock"} \/ clnt_cnt < MAX_CLNT
    BY DEF ReadLogin, Reject, ToAccept, kernel, table, local, TypeOK, TableOK
<1> QED
    BY <1>1, <1>2, <1>3, <1>4, CountFrame

LEMMA ScanCount ==
    ASSUME TypeOK, CountInv, Scan
    PROVE  CountInv'
<1>1. UNCHANGED <<mutx, clnt_cnt, tmp, pc>>
    BY DEF Scan, Reject, ToAccept, kernel, table, local
<1>2. ConnectsOnce'
    BY ConstantTypes DEF Scan, Reject, ToAccept, kernel, table, local, CountInv, ConnectsOnce, TypeOK, MainOK, KernelOK
<1>3. Counted' = Counted
    BY <1>1 DEF Scan, Reject, ToAccept, kernel, table, local, Counted, CountInv, TypeOK, MainOK
<1>4. /\ mpc' = "count" <=> mpc = "count"
      /\ mpc' \in {"login", "scan", "lock"} =>
             mpc \in {"login", "scan", "lock"} \/ clnt_cnt < MAX_CLNT
    BY DEF Scan, Reject, ToAccept, kernel, table, local, TypeOK, TableOK
<1> QED
    BY <1>1, <1>2, <1>3, <1>4, CountFrame

LEMMA KickCount ==
    ASSUME TypeOK, CountInv, Kick
    PROVE  CountInv'
<1>1. UNCHANGED <<mutx, clnt_cnt, tmp, pc>>
    BY DEF Kick, ToAccept, kernel, table, local
<1>2. ConnectsOnce'
    BY ConstantTypes DEF Kick, ToAccept, kernel, table, local, CountInv, ConnectsOnce, TypeOK, MainOK, KernelOK
<1>3. Counted' = Counted
    BY <1>1 DEF Kick, ToAccept, kernel, table, local, Counted, CountInv, TypeOK, MainOK
<1>4. /\ mpc' = "count" <=> mpc = "count"
      /\ mpc' \in {"login", "scan", "lock"} =>
             mpc \in {"login", "scan", "lock"} \/ clnt_cnt < MAX_CLNT
    BY DEF Kick, ToAccept, kernel, table, local, TypeOK, TableOK
<1> QED
    BY <1>1, <1>2, <1>3, <1>4, CountFrame

LEMMA SpawnCount ==
    ASSUME TypeOK, CountInv, Spawn
    PROVE  CountInv'
<1>1. UNCHANGED <<mutx, clnt_cnt, tmp>>
    BY DEF Spawn, ToAccept, kernel, table, local
<1>2. ConnectsOnce'
    BY ConstantTypes DEF Spawn, ToAccept, kernel, table, local, CountInv, ConnectsOnce, TypeOK, MainOK, ThreadOK, KernelOK
<1>3. Counted' = Counted
    BY <1>1 DEF Spawn, ToAccept, kernel, table, local, Counted, CountInv, TypeOK, MainOK, ThreadOK, KernelOK
<1>4. /\ mpc' = "count" <=> mpc = "count"
      /\ mpc' \in {"login", "scan", "lock"} =>
             mpc \in {"login", "scan", "lock"} \/ clnt_cnt < MAX_CLNT
    BY DEF Spawn, ToAccept, kernel, table, local, TypeOK, TableOK
<1>5. \A c \in Conns : pc'[c] = "dec" <=> pc[c] = "dec"
    BY DEF Spawn, ToAccept, kernel, table, local, CountInv, ConnectsOnce, TypeOK, MainOK, ThreadOK, KernelOK
<1>6. \A c \in Conns : pc'[c] = "clear" <=> pc[c] = "clear"
    BY DEF Spawn, ToAccept, kernel, table, local, CountInv, ConnectsOnce, TypeOK, MainOK, ThreadOK, KernelOK
<1> QED
    BY <1>1, <1>2, <1>3, <1>4, <1>5, <1>6, CountFrame

\* The steps of a thread between its start and its lock.
LEMMA ThreadFrameCount ==
    ASSUME TypeOK, CountInv, NEW c \in Conns,
           EnterRead(c) \/ ReadReturns(c) \/ SendToSlot(c) \/ SendDone(c) \/ SendReply(c) \/ CloseFd(c)
    PROVE  CountInv'
<1>1. /\ UNCHANGED <<mutx, clnt_cnt, tmp, mpc, cur, backlog, peer>>
      /\ pc[c] \in {"enter", "blocked", "send", "close"}
      /\ \E p \in {"enter", "blocked", "send", "close", "lock"} : pc' = [pc EXCEPT ![c] = p]
    BY DEF EnterRead, ReadReturns, SendToSlot, SendDone, SendReply, CloseFd, ToRead, Goto,
           kernel, table, mlocal, TypeOK, ThreadOK
<1>2. ConnectsOnce'
    BY <1>1 DEF CountInv, ConnectsOnce, TypeOK, ThreadOK, KernelOK, MainOK
<1>3. Counted' = Counted
    BY <1>1 DEF Counted, TypeOK, ThreadOK
<1>4. \A d \in Conns : (pc'[d] = "dec" <=> pc[d] = "dec") /\ (pc'[d] = "clear" <=> pc[d] = "clear")
    BY <1>1 DEF TypeOK, ThreadOK
<1> QED
    BY <1>1, <1>2, <1>3, <1>4, CountFrame

LEMMA RegisterLockCount ==
    ASSUME TypeOK, CountInv, RegisterLock
    PROVE  CountInv'
<1> USE DEF RegisterLock, kernel, local, TypeOK, TableOK
<1>1. Counted' = Counted
    BY DEF Counted
<1>2. MutexHeld'
    BY ConstantTypes DEF CountInv, MutexHeld
<1>3. ConnectsOnce'
    BY DEF CountInv, ConnectsOnce
<1>4. tmp'[Main] = clnt_cnt /\ \A c \in Conns : tmp'[c] = tmp[c] /\ pc[c] # "dec"
    BY ConstantTypes DEF CountInv, MutexHeld, Threads
<1> QED
    BY <1>1, <1>2, <1>3, <1>4 DEF CountInv, CountMatchesThreads, NeverOverfull

LEMMA RegisterCountCount ==
    ASSUME TypeOK, CountInv, RegisterCount
    PROVE  CountInv'
<1> USE DEF RegisterCount, kernel, local
<1>1. cur \in Conns /\ cur \notin Counted /\ Counted' = Counted \cup {cur}
    BY DEF Counted, CountInv, ConnectsOnce, TypeOK, MainOK
<1>2. Cardinality(Counted') = Cardinality(Counted) + 1
    BY <1>1, CountedFinite, FS_AddElement
<1>3. clnt_cnt' = clnt_cnt + 1 /\ clnt_cnt < MAX_CLNT /\ clnt_cnt \in Int
    BY DEF CountInv, TypeOK, TableOK
<1>4. MutexHeld' /\ \A c \in Conns : pc'[c] # "dec"
    BY ConstantTypes DEF CountInv, MutexHeld, TypeOK, TableOK
<1>5. ConnectsOnce'
    BY DEF CountInv, ConnectsOnce
<1>6. CountMatchesThreads' /\ NeverOverfull'
    BY <1>2, <1>3, ConstantTypes DEF CountInv, CountMatchesThreads, NeverOverfull
<1> QED
    BY <1>4, <1>5, <1>6 DEF CountInv

LEMMA ExitLockCount ==
    ASSUME TypeOK, CountInv, NEW c \in Conns, ExitLock(c)
    PROVE  CountInv'
<1> USE DEF ExitLock, Goto, kernel, mlocal, TypeOK, ThreadOK
<1>1. Counted' = Counted
    BY DEF Counted
<1>2. MutexHeld'
    BY ConstantTypes DEF CountInv, MutexHeld
<1>3. ConnectsOnce'
    BY DEF CountInv, ConnectsOnce, KernelOK, MainOK
<1>4. /\ tmp'[c] = clnt_cnt /\ tmp'[Main] = tmp[Main]
      /\ \A d \in Conns : d # c => pc'[d] # "dec"
    BY ConstantTypes DEF CountInv, MutexHeld, Threads, TableOK
<1> QED
    BY <1>1, <1>2, <1>3, <1>4 DEF CountInv, CountMatchesThreads, NeverOverfull

LEMMA ExitCountCount ==
    ASSUME TypeOK, CountInv, NEW c \in Conns, ExitCount(c)
    PROVE  CountInv'
<1> USE DEF ExitCount, Goto, kernel, mlocal, TypeOK, ThreadOK
<1>1. c \in Counted /\ Counted' = Counted \ {c}
    BY DEF Counted, CountInv, ConnectsOnce
<1>2. Cardinality(Counted') = Cardinality(Counted) - 1
    BY <1>1, CountedFinite, FS_RemoveElement
<1>3. clnt_cnt' = clnt_cnt - 1 /\ clnt_cnt \in Int
    BY DEF CountInv, TableOK
<1>4. MutexHeld' /\ mpc' # "count" /\ \A d \in Conns : pc'[d] # "dec"
    BY ConstantTypes DEF CountInv, MutexHeld
<1>5. ConnectsOnce'
    BY DEF CountInv, ConnectsOnce, KernelOK, MainOK
<1>6. CountMatchesThreads' /\ NeverOverfull'
    BY <1>2, <1>3, ConstantTypes DEF CountInv, CountMatchesThreads, NeverOverfull
<1>7. mpc' \in {"login", "scan", "lock", "count"} => clnt_cnt' < MAX_CLNT
    BY <1>3, ConstantTypes DEF CountInv
<1> QED
    BY <1>4, <1>5, <1>6, <1>7 DEF CountInv

LEMMA ExitClearCount ==
    ASSUME TypeOK, CountInv, NEW c \in Conns, ExitClear(c)
    PROVE  CountInv'
<1> USE DEF ExitClear, Goto, kernel, mlocal, TypeOK, ThreadOK
<1>1. Counted' = Counted
    BY DEF Counted
<1>2. MutexHeld' /\ mpc' # "count" /\ \A d \in Conns : pc'[d] # "dec"
    BY ConstantTypes DEF CountInv, MutexHeld
<1>3. ConnectsOnce'
    BY DEF CountInv, ConnectsOnce, KernelOK, MainOK
<1> QED
    BY <1>1, <1>2, <1>3 DEF CountInv, CountMatchesThreads, NeverOverfull

LEMMA CountStep == TypeOK /\ CountInv /\ [Next]_vars => CountInv'
<1> SUFFICES ASSUME TypeOK, CountInv, [Next]_vars PROVE CountInv'
    OBVIOUS
<1>1. CASE UNCHANGED vars
    BY <1>1 DEF vars, kernel, local, mlocal, table, CountInv, MutexHeld, ConnectsOnce,
                CountMatchesThreads, NeverOverfull, Counted
<1>2. ASSUME NEW c \in Conns, Client(c) PROVE CountInv'
    BY <1>2, ClientCount
<1>3. ASSUME Server PROVE CountInv'
    BY <1>3, AcceptCount, CheckFullCount, ReadLoginCount, ScanCount, KickCount,
       RegisterLockCount, RegisterCountCount, SpawnCount DEF Server
<1>4. ASSUME NEW c \in Conns, Thread(c) PROVE CountInv'
    BY <1>4, ThreadFrameCount, ExitLockCount, ExitCountCount, ExitClearCount DEF Thread
<1> QED
    BY <1>1, <1>2, <1>3, <1>4 DEF Next

\* clnt_cnt counts the client threads exactly, whatever the interleaving, and never
\* passes MAX_CLNT although line 139 tests it without the mutex.
THEOREM CountCorrect == Spec => [](CountMatchesThreads /\ NeverOverfull /\ MutexHeld)
<1>1. Init => TypeOK /\ CountInv
    BY InitTypeOK, InitCount
<1>2. TypeOK /\ CountInv /\ [Next]_vars => (TypeOK /\ CountInv)'
    BY TypeStep, CountStep
<1>3. CountInv => CountMatchesThreads /\ NeverOverfull /\ MutexHeld
    BY DEF CountInv
<1> QED
    BY <1>1, <1>2, <1>3, PTL DEF Spec

\* mutx is held exactly between a lock and its unlock, by one thread.
THEOREM MutexExact == Spec => []MutexHeld
  BY CountCorrect, PTL

\* The test of line 139, outside the mutex, is enough: never more than MAX_CLNT sessions.
THEOREM NeverTooMany == Spec => []NeverOverfull
  BY CountCorrect, PTL

-----------------------------------------------------------------------------
(* The server implements SessionPool. *)

LEMMA PoolStep ==
    ASSUME TypeOK, CountInv, [Next]_vars
    PROVE  [Pool!Next]_<<NotYetCounted, Counted, clnt_cnt>>
<1> DEFINE PoolUnchanged == UNCHANGED <<NotYetCounted, Counted, clnt_cnt>>
<1>1. CASE UNCHANGED vars
    BY <1>1 DEF vars, local, mlocal, table, NotYetCounted, Counted
<1>2. ASSUME NEW c \in Conns, Client(c) PROVE PoolUnchanged
    BY <1>2 DEF Client, Connect, SendLogin, SendMessage, Close, table, mlocal, local,
                NotYetCounted, Counted
<1>3. ASSUME Accept \/ CheckFull \/ ReadLogin \/ Scan \/ Kick \/ RegisterLock
      PROVE  PoolUnchanged
  <2>1. UNCHANGED <<pc, clnt_cnt>> /\ mpc # "spawn" /\ mpc' # "spawn"
    BY <1>3 DEF Accept, CheckFull, ReadLogin, Scan, Kick, RegisterLock, Reject, ToAccept,
                table, local
  <2> QED
    BY <2>1 DEF NotYetCounted, Counted
<1>4. ASSUME Spawn PROVE PoolUnchanged
    BY <1>4 DEF Spawn, ToAccept, table, NotYetCounted, Counted, TypeOK, MainOK, ThreadOK
<1>5. ASSUME NEW c \in Conns,
             EnterRead(c) \/ ReadReturns(c) \/ SendToSlot(c) \/ SendDone(c) \/ SendReply(c)
             \/ CloseFd(c) \/ ExitLock(c) \/ ExitClear(c)
      PROVE  PoolUnchanged
  <2>1. UNCHANGED <<clnt_cnt, mpc, cur>>
    BY <1>5 DEF EnterRead, ReadReturns, SendToSlot, SendDone, SendReply, CloseFd, ExitLock,
                ExitClear, table, mlocal
  <2>2. \/ /\ pc[c] \in {"enter", "blocked", "send", "close", "lock"}
           /\ \E p \in {"enter", "blocked", "send", "close", "lock", "dec"} :
                pc' = [pc EXCEPT ![c] = p]
        \/ pc[c] = "clear" /\ pc' = [pc EXCEPT ![c] = "done"]
    BY <1>5 DEF EnterRead, ReadReturns, SendToSlot, SendDone, SendReply, CloseFd, ExitLock,
                ExitClear, ToRead, Goto, TypeOK, ThreadOK
  <2>3. Counted' = Counted
    BY <2>1, <2>2 DEF Counted, TypeOK, ThreadOK
  <2> QED
    BY <2>1, <2>2, <2>3 DEF NotYetCounted, TypeOK, ThreadOK
<1>6. ASSUME RegisterCount PROVE Pool!Enter(cur) /\ cur \in Conns
  <2>1. pc' = pc /\ cur \in Conns /\ cur \notin Counted /\ pc[cur] = "none"
    BY <1>6 DEF RegisterCount, local, Counted, CountInv, ConnectsOnce, TypeOK, MainOK
  <2>2. Counted' = Counted \cup {cur}
    BY <1>6, <2>1 DEF RegisterCount, Counted
  <2>3. cur \in NotYetCounted /\ NotYetCounted' = NotYetCounted \ {cur}
    BY <2>1, <2>2 DEF NotYetCounted
  <2>4. clnt_cnt < MAX_CLNT /\ clnt_cnt' = clnt_cnt + 1
    BY <1>6 DEF RegisterCount, CountInv
  <2> QED
    BY <2>1, <2>2, <2>3, <2>4 DEF Pool!Enter
<1>7. ASSUME NEW c \in Conns, ExitCount(c) PROVE Pool!Leave(c)
  <2>1. c \in Counted /\ Counted' = Counted \ {c} /\ NotYetCounted' = NotYetCounted
    BY <1>7 DEF ExitCount, Goto, mlocal, NotYetCounted, Counted, CountInv, ConnectsOnce,
                TypeOK, ThreadOK
  <2>2. clnt_cnt' = clnt_cnt - 1
    BY <1>7 DEF ExitCount, CountInv
  <2> QED
    BY <2>1, <2>2 DEF Pool!Leave
<1> QED
    BY <1>1, <1>2, <1>3, <1>4, <1>5, <1>6, <1>7 DEF Next, Server, Thread, Pool!Next

\* Every behaviour of the server is a behaviour of the session pool.
THEOREM ServerImplementsPool == Spec => ImplementsSessionPool
<1>1. Init => Pool!Init
    BY DEF Init, Pool!Init, NotYetCounted, Counted
<1>2. Init => TypeOK /\ CountInv
    BY InitTypeOK, InitCount
<1>3. TypeOK /\ CountInv /\ [Next]_vars => (TypeOK /\ CountInv)'
    BY TypeStep, CountStep
<1>4. TypeOK /\ CountInv /\ [Next]_vars => [Pool!Next]_<<NotYetCounted, Counted, clnt_cnt>>
    BY PoolStep
<1> QED
    BY <1>1, <1>2, <1>3, <1>4, PTL DEF Spec, ImplementsSessionPool, Pool!Spec

-----------------------------------------------------------------------------
(* Isolation: the sessions do not disturb each other as long as no login    *)
(* finds its slot taken.                                                    *)

LEMMA InitIsolation == Init => IsolationInv
<1> SUFFICES ASSUME Init PROVE IsolationInv
    OBVIOUS
<1>1. OnlineHasThread
    BY SlotTypes DEF Init, OnlineHasThread
<1>2. OneDescriptor /\ OnlyRefusedLeak
    BY DEF Init, OneDescriptor, OnlyRefusedLeak
<1>3. AnsweredOnce /\ ExclusiveSlots /\ SessionIsolation
    BY DEF Init, AnsweredOnce, ExclusiveSlots, SessionIsolation, Running, Live
<1> QED
    BY <1>1, <1>2, <1>3 DEF Init, IsolationInv

\* A slot that is in use names an open descriptor; 0 and -1 name none.
LEMMA SlotFile ==
    ASSUME TypeOK, NEW s \in Slots, File(fd[s]) \in Conns
    PROVE  fd[s] \in Fds /\ files[fd[s]] = File(fd[s])
BY ConstantTypes DEF File

\* What the client does touches neither the table nor the descriptors.
LEMMA ClientIsolation ==
    ASSUME TypeOK, CountInv, IsolationInv, NEW c \in Conns, Client(c)
    PROVE  IsolationInv'
<1>1. /\ UNCHANGED <<files, fd, mpc, clnt_sock, cur, who, pc, slot, rd, mfd, reply, shut>>
      /\ peer[c] = "idle" \/ backlog' = backlog
      /\ backlog' \subseteq backlog \cup {c}
      /\ peer' \in [Conns -> {"idle", "connected", "talking", "closed"}]
      /\ \A d \in Conns : peer'[d] = "idle" => peer[d] = "idle" /\ d \notin backlog' \ backlog
    BY DEF Client, Connect, SendLogin, SendMessage, Close, table, mlocal, local, answers,
           TypeOK, KernelOK
<1>2. OneDescriptor'
    BY <1>1 DEF IsolationInv, OneDescriptor, TypeOK, KernelOK
<1>3. AnsweredOnce'
    BY <1>1 DEF IsolationInv, AnsweredOnce
<1>4. OnlineHasThread' /\ (NoRelogin' => ExclusiveSlots') /\ (NoRelogin' <=> NoRelogin)
    BY <1>1 DEF IsolationInv, OnlineHasThread, ExclusiveSlots, Running, NoRelogin
<1>5. SessionIsolation' /\ OnlyRefusedLeak'
    BY <1>1, <1>4 DEF IsolationInv, SessionIsolation, OnlyRefusedLeak, File
<1> QED
    BY <1>1, <1>2, <1>3, <1>4, <1>5 DEF IsolationInv

\* A thread that stays on the same side of its close() and touches no descriptor.
LEMMA ThreadFrameIsolation ==
    ASSUME TypeOK, CountInv, IsolationInv, NEW c \in Conns, NEW p,
           UNCHANGED <<peer, backlog, files, fd, mpc, clnt_sock, cur, who, slot, reply, shut>>,
           Running(c), p \notin {"none", "done"}, pc' = [pc EXCEPT ![c] = p],
           p \in Live <=> pc[c] \in Live, SessionIsolation'
    PROVE  IsolationInv'
<1>1. \A d \in Conns : /\ Running(d)' <=> Running(d)
                       /\ pc'[d] \in Live <=> pc[d] \in Live
    BY DEF TypeOK, ThreadOK, Running
<1>2. OnlineHasThread'
    BY <1>1 DEF IsolationInv, OnlineHasThread, Running
<1>3. OneDescriptor' /\ AnsweredOnce' /\ (NoRelogin' <=> NoRelogin)
    BY DEF IsolationInv, OneDescriptor, AnsweredOnce, NoRelogin
<1>4. NoRelogin' => ExclusiveSlots'
    BY <1>1, <1>3 DEF IsolationInv, ExclusiveSlots
<1>5. OnlyRefusedLeak'
    BY <1>1, <1>3 DEF IsolationInv, OnlyRefusedLeak, TypeOK, KernelOK
<1> QED
    BY <1>2, <1>3, <1>4, <1>5 DEF IsolationInv

LEMMA ThreadStayIsolation ==
    ASSUME TypeOK, CountInv, IsolationInv, NEW c \in Conns,
           EnterRead(c) \/ ReadReturns(c) \/ SendToSlot(c) \/ SendDone(c) \/ SendReply(c)
           \/ ExitLock(c) \/ ExitCount(c)
    PROVE  IsolationInv'
<1>1. UNCHANGED <<peer, backlog, files, fd, mpc, clnt_sock, cur, who, slot, reply, shut>>
    BY DEF EnterRead, ReadReturns, SendToSlot, SendDone, SendReply, ExitLock, ExitCount, ToRead, Goto,
           kernel, table, mlocal, answers
<1>2. PICK p : /\ Running(c) /\ p \notin {"none", "done"} /\ pc' = [pc EXCEPT ![c] = p]
               /\ p \in Live <=> pc[c] \in Live
    BY DEF EnterRead, ReadReturns, SendToSlot, SendDone, SendReply, ExitLock, ExitCount, ToRead, Goto,
           Running, Live, TypeOK, ThreadOK
<1>3. SessionIsolation'
  <2> SUFFICES ASSUME NoRelogin, NEW d \in Conns
               PROVE  /\ pc'[d] \in Live => File(fd[slot[d]])' = d
                      /\ pc'[d] = "blocked" => rd'[d] = d
                      /\ pc'[d] = "send" => mfd'[d] = fd'[slot'[d]]
    BY <1>1 DEF SessionIsolation, NoRelogin, File
  <2>1. /\ pc[d] \in Live => File(fd[slot[d]]) = d
        /\ pc[d] = "blocked" => rd[d] = d
        /\ pc[d] = "send" => mfd[d] = fd[slot[d]]
    BY DEF IsolationInv, SessionIsolation
  <2>2. pc'[d] \in Live => File(fd[slot[d]])' = d
    BY <1>1, <1>2, <2>1 DEF File, TypeOK, ThreadOK
  <2>3. pc'[d] = "blocked" => rd'[d] = d
    BY <1>1, <2>1 DEF EnterRead, ReadReturns, SendToSlot, SendDone, SendReply, ExitLock, ExitCount,
                      ToRead, Goto, Live, TypeOK, ThreadOK
  <2>4. pc'[d] = "send" => mfd'[d] = fd'[slot'[d]]
    BY <1>1, <2>1 DEF EnterRead, ReadReturns, SendToSlot, SendDone, SendReply, ExitLock, ExitCount,
                      ToRead, Goto, TypeOK, ThreadOK
  <2> QED
    BY <2>2, <2>3, <2>4
<1> QED
    BY <1>1, <1>2, <1>3, ThreadFrameIsolation

\* close() of the thread's own descriptor: the only one it can be while no login has
\* found its slot taken.
LEMMA CloseFdIsolation ==
    ASSUME TypeOK, CountInv, IsolationInv, NEW c \in Conns, CloseFd(c)
    PROVE  IsolationInv'
<1>1. /\ UNCHANGED <<peer, backlog, fd, mpc, clnt_sock, cur, who, slot, rd, mfd, reply, shut>>
      /\ pc[c] = "close" /\ pc' = [pc EXCEPT ![c] = "lock"]
    BY DEF CloseFd, Goto, kernel, table, mlocal, answers
<1>2. /\ \A d \in Conns : Running(d)' <=> Running(d)
      /\ \A d \in Conns : pc'[d] \in Live => pc[d] \in Live /\ d # c
      /\ \A d \in Conns : d # c => pc'[d] = pc[d]
    BY <1>1 DEF Running, Live, TypeOK, ThreadOK
<1>3. /\ \A f \in Fds : files'[f] \in {files[f], None}
      /\ \A f \in Fds : f # fd[slot[c]] => files'[f] = files[f]
    BY DEF CloseFd, TypeOK, KernelOK
<1>4. OnlineHasThread' /\ AnsweredOnce' /\ (NoRelogin' <=> NoRelogin)
    BY <1>1, <1>2 DEF IsolationInv, OnlineHasThread, Running, AnsweredOnce, NoRelogin
<1>5. OneDescriptor'
    BY <1>1, <1>3 DEF IsolationInv, OneDescriptor
<1>6. ASSUME NoRelogin
      PROVE  /\ fd[slot[c]] \in Fds /\ files[fd[slot[c]]] = c
             /\ files'[fd[slot[c]]] = None
             /\ mpc # "accept" => clnt_sock # fd[slot[c]]
  <2>1. File(fd[slot[c]]) = c
    BY <1>1, <1>6 DEF IsolationInv, SessionIsolation, Live
  <2>2. slot[c] \in Slots
    BY SlotTypes DEF TypeOK, ThreadOK
  <2>3. fd[slot[c]] \in Fds /\ files[fd[slot[c]]] = c
    BY <2>1, <2>2, SlotFile
  <2>4. files'[fd[slot[c]]] = None
    BY <2>3 DEF CloseFd, TypeOK, KernelOK
  <2>5. mpc # "accept" => files[clnt_sock] = cur /\ cur # c
    BY <1>1, <1>6 DEF IsolationInv, ExclusiveSlots, CountInv, ConnectsOnce
  <2> QED
    BY <2>3, <2>4, <2>5
<1>7. NoRelogin' => ExclusiveSlots'
    BY <1>1, <1>2, <1>3, <1>4, <1>6 DEF IsolationInv, ExclusiveSlots, TypeOK, MainOK
<1>8. SessionIsolation'
  <2> SUFFICES ASSUME NoRelogin, NEW d \in Conns, pc'[d] \in Live
               PROVE  File(fd[slot[d]])' = d
    BY <1>1, <1>2, <1>4 DEF IsolationInv, SessionIsolation
  <2>1. File(fd[slot[d]]) = d /\ d # c /\ slot[d] \in Slots
    BY <1>2, SlotTypes DEF IsolationInv, SessionIsolation, TypeOK, ThreadOK
  <2>2. fd[slot[d]] \in Fds /\ files[fd[slot[d]]] = d
    BY <2>1, SlotFile
  <2>3. files'[fd[slot[d]]] = d
    BY <1>3, <1>6, <2>1, <2>2
  <2> QED
    BY <1>1, <2>2, <2>3 DEF File
<1>9. OnlyRefusedLeak'
  <2> SUFFICES ASSUME NoRelogin, NEW f \in Fds, files'[f] # None
               PROVE  \/ files'[f] \in shut' \cup {None, cur'}
                      \/ pc'[files'[f]] \in Live /\ fd'[slot'[files'[f]]] = f
    BY <1>4 DEF OnlyRefusedLeak
  <2>1. files'[f] = files[f] /\ f # fd[slot[c]] /\ files[f] \in Conns
    BY <1>3, <1>6 DEF TypeOK, KernelOK
  <2>2. files[f] # c
    BY <1>6, <2>1 DEF IsolationInv, OneDescriptor, TypeOK, KernelOK
  <2> QED
    BY <1>1, <1>2, <2>1, <2>2 DEF IsolationInv, OnlyRefusedLeak
<1> QED
    BY <1>1, <1>4, <1>5, <1>7, <1>8, <1>9 DEF IsolationInv

LEMMA ExitClearIsolation ==
    ASSUME TypeOK, CountInv, IsolationInv, NEW c \in Conns, ExitClear(c)
    PROVE  IsolationInv'
<1>1. /\ UNCHANGED <<peer, backlog, files, mpc, clnt_sock, cur, who, slot, rd, mfd, reply, shut>>
      /\ pc[c] = "clear" /\ pc' = [pc EXCEPT ![c] = "done"]
      /\ fd' = [fd EXCEPT ![slot[c]] = -1]
      /\ slot[c] \in Slots
    BY SlotTypes DEF ExitClear, Goto, kernel, mlocal, answers, TypeOK, ThreadOK
<1>2. \A d \in Conns : d # c => (pc'[d] = pc[d]) /\ (Running(d)' <=> Running(d))
    BY <1>1 DEF Running, TypeOK, ThreadOK
<1>3. Running(c) /\ ~Running(c)' /\ pc'[c] \notin Live
    BY <1>1 DEF Running, Live, TypeOK, ThreadOK
<1>4. \A s \in Slots : s # slot[c] => fd'[s] = fd[s]
    BY <1>1 DEF TypeOK, TableOK
<1>5. fd'[slot[c]] = -1
    BY <1>1 DEF TypeOK, TableOK
<1>6. mpc' = "lock" => fd'[who'] = -1
    BY <1>1, <1>4, <1>5, SlotTypes DEF IsolationInv, TypeOK, MainOK
<1>7. OneDescriptor' /\ AnsweredOnce' /\ (NoRelogin' <=> NoRelogin)
    BY <1>1 DEF IsolationInv, OneDescriptor, AnsweredOnce, NoRelogin
<1>8. OnlineHasThread'
  <2> SUFFICES ASSUME NEW s \in Registered, fd'[s] # -1
               PROVE  \/ mpc' \in {"count", "spawn"} /\ who' = s
                      \/ \E d \in Conns : slot'[d] = s /\ Running(d)'
    BY DEF OnlineHasThread, Running
  <2>1. s # slot[c] /\ fd[s] # -1
    BY <1>4, <1>5, SlotTypes
  <2> QED
    BY <1>1, <1>2, <2>1 DEF IsolationInv, OnlineHasThread, Running
<1>9. ASSUME NoRelogin, NEW d \in Conns, Running(d)'
      PROVE  d # c /\ Running(d) /\ slot[d] # slot[c] /\ fd'[slot'[d]] = fd[slot[d]]
  <2>1. d # c /\ Running(d)
    BY <1>2, <1>3, <1>9
  <2>2. slot[d] # slot[c] /\ slot[d] \in Slots
    BY <1>3, <1>9, <2>1, SlotTypes DEF IsolationInv, ExclusiveSlots, TypeOK, ThreadOK
  <2> QED
    BY <1>1, <1>4, <2>1, <2>2
<1>10. NoRelogin' => ExclusiveSlots'
  <2> SUFFICES ASSUME NoRelogin PROVE ExclusiveSlots'
    BY <1>7
  <2>1. mpc \in {"count", "spawn"} => who # slot[c] /\ who \in Slots
    BY <1>3, SlotTypes DEF IsolationInv, ExclusiveSlots, TypeOK, MainOK
  <2> QED
    BY <1>1, <1>4, <1>9, <2>1 DEF IsolationInv, ExclusiveSlots
<1>11. SessionIsolation'
  <2> SUFFICES ASSUME NoRelogin, NEW d \in Conns, pc'[d] \in Live
               PROVE  /\ File(fd[slot[d]])' = d
                      /\ pc'[d] = "blocked" => rd'[d] = d
                      /\ pc'[d] = "send" => mfd'[d] = fd'[slot'[d]]
    BY <1>7 DEF SessionIsolation, Live
  <2>1. d # c /\ fd'[slot'[d]] = fd[slot[d]] /\ pc'[d] = pc[d]
    BY <1>2, <1>3, <1>9 DEF Running, Live
  <2> QED
    BY <1>1, <2>1 DEF IsolationInv, SessionIsolation, File
<1>12. OnlyRefusedLeak'
  <2> SUFFICES ASSUME NoRelogin, NEW f \in Fds, files[f] \notin shut \cup {None, cur}
               PROVE  pc'[files[f]] \in Live /\ fd'[slot'[files[f]]] = f
    BY <1>1, <1>7 DEF OnlyRefusedLeak
  <2>1. PICK d \in Conns : d = files[f] /\ pc[d] \in Live /\ fd[slot[d]] = f
    BY DEF IsolationInv, OnlyRefusedLeak, TypeOK, KernelOK
  <2>2. d # c /\ pc'[d] = pc[d] /\ Running(d)'
    BY <1>1, <1>2, <2>1 DEF Running, Live
  <2>3. fd'[slot'[d]] = fd[slot[d]]
    BY <1>9, <2>1, <2>2
  <2> QED
    BY <2>1, <2>2, <2>3
<1> QED
    BY <1>6, <1>7, <1>8, <1>10, <1>11, <1>12 DEF IsolationInv

-----------------------------------------------------------------------------
(* main() *)

\* Steps of main that leave every table and every thread alone.
LEMMA MainFrameIsolation ==
    ASSUME TypeOK, CountInv, IsolationInv,
           UNCHANGED <<peer, backlog, files, fd, pc, slot, rd, mfd>>,
           shut \subseteq shut', AnsweredOnce', mpc' \notin {"count", "spawn"},
           mpc \notin {"count", "spawn"},
           cur' # cur => cur \in shut' \cup {None},
           NoRelogin' => NoRelogin,
           mpc' # "accept" => mpc # "accept" /\ cur' = cur /\ clnt_sock' = clnt_sock,
           NoRelogin' /\ mpc' = "lock" => /\ fd[who'] = -1
                           /\ \A c \in Conns : Running(c) => slot[c] # who',
           mpc' = "lock" => fd[who'] = -1
    PROVE  IsolationInv'
<1>1. OnlineHasThread'
    BY DEF IsolationInv, OnlineHasThread
<1>2. OneDescriptor'
    BY DEF IsolationInv, OneDescriptor
<1>3. NoRelogin' => ExclusiveSlots'
    BY DEF IsolationInv, ExclusiveSlots, Running
<1>4. SessionIsolation'
    BY DEF IsolationInv, SessionIsolation, File
<1>5. OnlyRefusedLeak'
    BY DEF IsolationInv, OnlyRefusedLeak
<1> QED
    BY <1>1, <1>2, <1>3, <1>4, <1>5 DEF IsolationInv

LEMMA CheckFullIsolation ==
    ASSUME TypeOK, CountInv, IsolationInv, CheckFull
    PROVE  IsolationInv'
<1>1. /\ UNCHANGED <<peer, backlog, files, fd, pc, slot, rd, mfd, reply>>
      /\ mpc = "check" /\ mpc' \in {"accept", "login"}
      /\ mpc' = "accept" => shut' = shut \cup {cur} /\ cur' = None
      /\ mpc' = "login" => UNCHANGED <<clnt_sock, cur, shut>>
    BY DEF CheckFull, Reject, ToAccept, kernel, table, local
<1>2. AnsweredOnce' /\ (NoRelogin' <=> NoRelogin)
    BY <1>1 DEF IsolationInv, AnsweredOnce, NoRelogin
<1> QED
    BY <1>1, <1>2, MainFrameIsolation

LEMMA ReadLoginIsolation ==
    ASSUME TypeOK, CountInv, IsolationInv, ReadLogin
    PROVE  IsolationInv'
<1>1. /\ UNCHANGED <<peer, backlog, files, fd, pc, slot, rd, mfd, reply>>
      /\ mpc = "login" /\ mpc' \in {"accept", "scan"}
      /\ mpc' = "accept" => shut' = shut \cup {cur} /\ cur' = None
      /\ mpc' = "scan" => UNCHANGED <<clnt_sock, cur, shut>>
    BY DEF ReadLogin, Reject, ToAccept, table, local
<1>2. AnsweredOnce' /\ (NoRelogin' <=> NoRelogin)
    BY <1>1 DEF IsolationInv, AnsweredOnce, NoRelogin
<1> QED
    BY <1>1, <1>2, MainFrameIsolation

LEMMA ScanIsolation ==
    ASSUME TypeOK, CountInv, IsolationInv, Scan
    PROVE  IsolationInv'
<1>1. /\ UNCHANGED <<peer, backlog, files, fd, pc, slot, rd, mfd>>
      /\ mpc = "scan" /\ mpc' \in {"accept", "kick", "lock"}
      /\ shut \subseteq shut'
      /\ mpc' = "accept" => shut' = shut \cup {cur} /\ cur' = None
      /\ mpc' # "accept" => UNCHANGED <<clnt_sock, cur>>
    BY DEF Scan, Answer, Reject, ToAccept, kernel, table, local, answers
<1>2. /\ mpc' = "lock" => who' \in Registered /\ fd[who'] = -1 /\ reply' = reply
      /\ mpc' = "kick" => reply' = [reply EXCEPT ![cur] = "already"]
      /\ mpc' = "accept" => reply' = [reply EXCEPT ![cur] = "autherr"]
    BY DEF Scan, Answer, Reject, ToAccept, answers
<1>3. /\ cur \in Conns /\ reply[cur] = "none" /\ peer[cur] # "idle" /\ cur \notin backlog
      /\ \A c \in Conns : c # cur => reply'[c] = reply[c]
      /\ mpc' = "kick" => reply'[cur] = "already"
    BY <1>1, <1>2 DEF IsolationInv, AnsweredOnce, CountInv, ConnectsOnce, TypeOK, MainOK, AnswerOK
<1>4. AnsweredOnce'
    BY <1>1, <1>2, <1>3 DEF IsolationInv, AnsweredOnce
<1>5. NoRelogin' => NoRelogin
    BY <1>3 DEF NoRelogin
<1>6. NoRelogin /\ mpc' = "lock" => \A c \in Conns : Running(c) => slot[c] # who'
    BY <1>2 DEF IsolationInv, ExclusiveSlots
<1> QED
    BY <1>1, <1>2, <1>4, <1>5, <1>6, MainFrameIsolation

\* Line 177 runs only after "Already logged!": then nothing is promised but what holds
\* of every login.
LEMMA KickIsolation ==
    ASSUME TypeOK, CountInv, IsolationInv, Kick
    PROVE  IsolationInv'
<1>1. /\ UNCHANGED <<peer, backlog, files, reply, pc, slot>>
      /\ mpc = "kick" /\ mpc' = "accept" /\ who \in Registered
      /\ fd' = [fd EXCEPT ![who] = -1]
    BY DEF Kick, ToAccept, kernel, local, answers, TypeOK, MainOK
<1>2. ~NoRelogin'
    BY <1>1 DEF IsolationInv, AnsweredOnce, NoRelogin, TypeOK, MainOK
<1>3. OnlineHasThread'
    BY <1>1, SlotTypes DEF IsolationInv, OnlineHasThread, TypeOK, TableOK
<1>4. OneDescriptor' /\ AnsweredOnce'
    BY <1>1 DEF IsolationInv, OneDescriptor, AnsweredOnce
<1> QED
    BY <1>1, <1>2, <1>3, <1>4 DEF IsolationInv, SessionIsolation, OnlyRefusedLeak

LEMMA AcceptIsolation ==
    ASSUME TypeOK, CountInv, IsolationInv, Accept
    PROVE  IsolationInv'
<1>1. PICK c \in backlog, f \in Fds :
        /\ files[f] = None
        /\ files' = [files EXCEPT ![f] = c]
        /\ backlog' = backlog \ {c}
        /\ clnt_sock' = f /\ cur' = c
    BY DEF Accept, NewFd
<1>2. /\ UNCHANGED <<peer, fd, who, pc, slot, rd, mfd, reply, shut>>
      /\ mpc = "accept" /\ mpc' = "check" /\ cur = None
    BY DEF Accept, table, local, answers, TypeOK, MainOK
<1>3. /\ c \in Conns /\ pc[c] = "none" /\ peer[c] # "idle" /\ reply[c] = "none"
      /\ \A g \in Fds : files[g] # c
      /\ files'[f] = c /\ \A g \in Fds : g # f => files'[g] = files[g]
    BY <1>1, ConstantTypes DEF IsolationInv, OneDescriptor, AnsweredOnce, CountInv, ConnectsOnce,
                TypeOK, KernelOK
<1>4. OnlineHasThread' /\ AnsweredOnce' /\ (NoRelogin' <=> NoRelogin)
    BY <1>1, <1>2, <1>3 DEF IsolationInv, OnlineHasThread, AnsweredOnce, NoRelogin
<1>5. OneDescriptor'
    BY <1>1, <1>2, <1>3 DEF IsolationInv, OneDescriptor
<1>6. NoRelogin' => ExclusiveSlots'
    BY <1>1, <1>2, <1>3, <1>4 DEF IsolationInv, ExclusiveSlots, Running
<1>7. SessionIsolation'
  <2> SUFFICES ASSUME NoRelogin, NEW d \in Conns, pc[d] \in Live
               PROVE  File(fd[slot[d]])' = d
    BY <1>2, <1>4 DEF IsolationInv, SessionIsolation
  <2>1. File(fd[slot[d]]) = d /\ slot[d] \in Slots
    BY SlotTypes DEF IsolationInv, SessionIsolation, TypeOK, ThreadOK
  <2>2. fd[slot[d]] \in Fds /\ files[fd[slot[d]]] = d
    BY <2>1, SlotFile
  <2>3. files'[fd[slot[d]]] = d
    BY <1>1, <1>3, <2>2, ConstantTypes
  <2> QED
    BY <1>2, <2>2, <2>3 DEF File
<1>8. OnlyRefusedLeak'
    BY <1>1, <1>2, <1>3, <1>4 DEF IsolationInv, OnlyRefusedLeak
<1> QED
    BY <1>2, <1>4, <1>5, <1>6, <1>7, <1>8 DEF IsolationInv

LEMMA RegisterLockIsolation ==
    ASSUME TypeOK, CountInv, IsolationInv, RegisterLock
    PROVE  IsolationInv'
<1>1. /\ UNCHANGED <<peer, backlog, files, clnt_sock, cur, who, pc, slot, rd, mfd, reply, shut>>
      /\ mpc = "lock" /\ mpc' = "count" /\ who \in Slots
      /\ fd' = [fd EXCEPT ![who] = clnt_sock]
      /\ fd'[who] = clnt_sock /\ \A s \in Slots : s # who => fd'[s] = fd[s]
    BY SlotTypes DEF RegisterLock, kernel, local, answers, TypeOK, TableOK, MainOK
<1>2. OneDescriptor' /\ AnsweredOnce' /\ (NoRelogin' <=> NoRelogin)
    BY <1>1 DEF IsolationInv, OneDescriptor, AnsweredOnce, NoRelogin
<1>3. OnlineHasThread'
    BY <1>1, SlotTypes DEF IsolationInv, OnlineHasThread
<1>4. ASSUME NoRelogin, NEW d \in Conns, Running(d)
      PROVE  slot'[d] # who /\ fd'[slot'[d]] = fd[slot[d]]
    BY <1>1, <1>4, SlotTypes DEF IsolationInv, ExclusiveSlots, TypeOK, ThreadOK
<1>5. NoRelogin' => ExclusiveSlots'
    BY <1>1, <1>2, <1>4 DEF IsolationInv, ExclusiveSlots, Running
<1>6. SessionIsolation'
    BY <1>1, <1>2, <1>4 DEF IsolationInv, SessionIsolation, File, Running, Live
<1>7. OnlyRefusedLeak'
  <2> SUFFICES ASSUME NoRelogin, NEW f \in Fds, files[f] \notin shut \cup {None, cur}
               PROVE  pc'[files[f]] \in Live /\ fd'[slot'[files[f]]] = f
    BY <1>1, <1>2 DEF OnlyRefusedLeak
  <2>1. PICK d \in Conns : d = files[f] /\ pc[d] \in Live /\ fd[slot[d]] = f
    BY DEF IsolationInv, OnlyRefusedLeak, TypeOK, KernelOK
  <2>2. fd'[slot'[d]] = fd[slot[d]]
    BY <1>4, <2>1 DEF Running, Live
  <2> QED
    BY <1>1, <2>1, <2>2
<1> QED
    BY <1>1, <1>2, <1>3, <1>5, <1>6, <1>7 DEF IsolationInv

LEMMA RegisterCountIsolation ==
    ASSUME TypeOK, CountInv, IsolationInv, RegisterCount
    PROVE  IsolationInv'
<1>1. /\ UNCHANGED <<peer, backlog, files, fd, clnt_sock, cur, who, pc, slot, rd, mfd, reply, shut>>
      /\ mpc = "count" /\ mpc' = "spawn"
    BY DEF RegisterCount, kernel, local, answers
<1>2. OneDescriptor' /\ AnsweredOnce' /\ OnlineHasThread' /\ (NoRelogin' <=> NoRelogin)
    BY <1>1 DEF IsolationInv, OneDescriptor, AnsweredOnce, OnlineHasThread, NoRelogin
<1>3. NoRelogin' => ExclusiveSlots'
    BY <1>1, <1>2 DEF IsolationInv, ExclusiveSlots, Running
<1>4. SessionIsolation' /\ OnlyRefusedLeak'
    BY <1>1, <1>2 DEF IsolationInv, SessionIsolation, OnlyRefusedLeak, File
<1> QED
    BY <1>1, <1>2, <1>3, <1>4 DEF IsolationInv

\* The new thread finds its descriptor in its slot.
LEMMA SpawnIsolation ==
    ASSUME TypeOK, CountInv, IsolationInv, Spawn
    PROVE  IsolationInv'
<1>1. /\ UNCHANGED <<peer, backlog, files, fd, rd, mfd, shut>>
      /\ mpc = "spawn" /\ mpc' = "accept" /\ cur' = None
      /\ cur \in Conns /\ who \in Registered /\ clnt_sock \in Fds
      /\ reply' = [reply EXCEPT ![cur] = "new"]
      /\ pc[cur] = "none" /\ reply[cur] = "none"
    BY DEF Spawn, Answer, ToAccept, kernel, table, TypeOK, MainOK, CountInv, ConnectsOnce,
           IsolationInv, AnsweredOnce
<1>2. /\ pc'[cur] = "enter" /\ slot'[cur] = who
      /\ \A d \in Conns : d # cur => pc'[d] = pc[d] /\ slot'[d] = slot[d] /\ reply'[d] = reply[d]
    BY <1>1 DEF Spawn, Answer, TypeOK, ThreadOK, AnswerOK
<1>3. peer[cur] # "idle" /\ cur \notin backlog
    BY <1>1 DEF CountInv, ConnectsOnce
<1>4. AnsweredOnce' /\ (NoRelogin' => NoRelogin)
    BY <1>1, <1>2, <1>3 DEF IsolationInv, AnsweredOnce, NoRelogin
<1>5. OneDescriptor'
    BY <1>1 DEF IsolationInv, OneDescriptor
<1>6. OnlineHasThread'
  <2> SUFFICES ASSUME NEW s \in Registered, fd[s] # -1
               PROVE  \E d \in Conns : slot'[d] = s /\ pc'[d] \notin {"none", "done"}
    BY <1>1 DEF OnlineHasThread
  <2>1. CASE who = s
    BY <1>1, <1>2, <2>1
  <2>2. CASE who # s
    <3>1. PICK d \in Conns : slot[d] = s /\ pc[d] \notin {"none", "done"}
      BY <1>1, <2>2 DEF IsolationInv, OnlineHasThread
    <3> QED
      BY <1>1, <1>2, <3>1
  <2> QED
    BY <2>1, <2>2
<1>7. ASSUME NoRelogin
      PROVE  fd[who] = clnt_sock /\ files[clnt_sock] = cur /\ \A d \in Conns : Running(d) => slot[d] # who
    BY <1>1, <1>7 DEF IsolationInv, ExclusiveSlots
<1>8. ASSUME NoRelogin PROVE ExclusiveSlots'
  <2>1. clnt_sock # -1
    BY <1>1, ConstantTypes DEF Fds
  <2>2. \A d \in Conns : Running(d)' => d = cur \/ Running(d)
    BY <1>2 DEF Running
  <2>3. \A d \in Conns : Running(d)' => fd'[slot'[d]] # -1
    BY <1>1, <1>2, <1>7, <1>8, <2>1, <2>2 DEF IsolationInv, ExclusiveSlots
  <2>4. \A d, e \in Conns : Running(d)' /\ Running(e)' /\ slot'[d] = slot'[e] => d = e
    BY <1>2, <1>7, <1>8, <2>2 DEF IsolationInv, ExclusiveSlots
  <2> QED
    BY <1>1, <2>3, <2>4 DEF ExclusiveSlots
<1>9. SessionIsolation'
  <2> SUFFICES ASSUME NoRelogin, NEW d \in Conns, pc'[d] \in Live
               PROVE  /\ File(fd[slot[d]])' = d
                      /\ pc'[d] = "blocked" => rd'[d] = d
                      /\ pc'[d] = "send" => mfd'[d] = fd'[slot'[d]]
    BY <1>4 DEF SessionIsolation, Live
  <2>1. CASE d = cur
    BY <1>1, <1>2, <1>7, <2>1 DEF File
  <2>2. CASE d # cur
    BY <1>1, <1>2, <2>2 DEF IsolationInv, SessionIsolation, File
  <2> QED
    BY <2>1, <2>2
<1>10. OnlyRefusedLeak'
  <2> SUFFICES ASSUME NoRelogin, NEW f \in Fds, files[f] \notin shut \cup {None}
               PROVE  pc'[files[f]] \in Live /\ fd[slot'[files[f]]] = f
    BY <1>1, <1>4 DEF OnlyRefusedLeak
  <2>1. CASE files[f] = cur
    <3>1. f = clnt_sock
      BY <1>1, <1>7, <2>1, ConstantTypes DEF IsolationInv, OneDescriptor
    <3> QED
      BY <1>2, <1>7, <2>1, <3>1 DEF Live
  <2>2. CASE files[f] # cur
    <3>1. PICK d \in Conns : d = files[f] /\ pc[d] \in Live /\ fd[slot[d]] = f
      BY <2>2 DEF IsolationInv, OnlyRefusedLeak, TypeOK, KernelOK
    <3> QED
      BY <1>2, <2>2, <3>1
  <2> QED
    BY <2>1, <2>2
<1> QED
    BY <1>1, <1>4, <1>5, <1>6, <1>8, <1>9, <1>10 DEF IsolationInv

-----------------------------------------------------------------------------
LEMMA IsolationStep == TypeOK /\ CountInv /\ IsolationInv /\ [Next]_vars => IsolationInv'
<1> SUFFICES ASSUME TypeOK, CountInv, IsolationInv, [Next]_vars PROVE IsolationInv'
    OBVIOUS
<1>1. CASE UNCHANGED vars
    BY <1>1 DEF vars, kernel, local, mlocal, table, answers, IsolationInv, OnlineHasThread,
                OneDescriptor, AnsweredOnce, NoRelogin, ExclusiveSlots, SessionIsolation,
                OnlyRefusedLeak, Running, File
<1>2. ASSUME NEW c \in Conns, Client(c) PROVE IsolationInv'
    BY <1>2, ClientIsolation
<1>3. ASSUME Server PROVE IsolationInv'
    BY <1>3, AcceptIsolation, CheckFullIsolation, ReadLoginIsolation, ScanIsolation, KickIsolation,
       RegisterLockIsolation, RegisterCountIsolation, SpawnIsolation DEF Server
<1>4. ASSUME NEW c \in Conns, Thread(c) PROVE IsolationInv'
    BY <1>4, ThreadStayIsolation, CloseFdIsolation, ExitClearIsolation DEF Thread
<1> QED
    BY <1>1, <1>2, <1>3, <1>4 DEF Next

\* Every session keeps to its own connection, descriptors leak only by refusals, and
\* a slot in use has a thread that will clear it.
THEOREM SessionsIsolated == Spec => [](SessionIsolation /\ OnlyRefusedLeak /\ OnlineHasThread)
<1>1. Init => TypeOK /\ CountInv /\ IsolationInv
    BY InitTypeOK, InitCount, InitIsolation
<1>2. TypeOK /\ CountInv /\ IsolationInv /\ [Next]_vars => (TypeOK /\ CountInv /\ IsolationInv)'
    BY TypeStep, CountStep, IsolationStep
<1>3. IsolationInv => SessionIsolation /\ OnlyRefusedLeak /\ OnlineHasThread
    BY DEF IsolationInv
<1> QED
    BY <1>1, <1>2, <1>3, PTL DEF Spec

\* Descriptors are lost to refused connections only.
THEOREM LeaksAreRefusals == Spec => []OnlyRefusedLeak
  BY SessionsIsolated, PTL

\* A slot in use has a thread that will clear it.
THEOREM NobodyLockedOut == Spec => []OnlineHasThread
  BY SessionsIsolated, PTL

LEMMA OverwriteStep ==
    ASSUME TypeOK, CountInv, IsolationInv, [Next]_vars, NEW s \in Slots, fd'[s] # fd[s]
    PROVE  -1 \in {fd[s], fd'[s]}
<1>1. fd' # fd
    OBVIOUS
<1>2. Kick \/ RegisterLock \/ \E c \in Conns : ExitClear(c)
    BY <1>1 DEF Next, vars, table, Client, Connect, SendLogin, SendMessage, Close, Server, Accept,
                CheckFull, ReadLogin, Scan, RegisterCount, Spawn, Thread, EnterRead, ReadReturns,
                SendToSlot, SendDone, SendReply, CloseFd, ExitLock, ExitCount
<1>3. CASE Kick
    BY <1>3 DEF Kick, TypeOK, TableOK
<1>4. CASE RegisterLock
    BY <1>4 DEF RegisterLock, IsolationInv, TypeOK, TableOK
<1>5. ASSUME NEW c \in Conns, ExitClear(c) PROVE -1 \in {fd[s], fd'[s]}
    BY <1>5 DEF ExitClear, TypeOK, TableOK
<1> QED
    BY <1>2, <1>3, <1>4, <1>5

\* The descriptor of a session is never replaced by another one without being cleared.
THEOREM SessionsNeverOverwritten == Spec => NeverOverwritten
<1>1. Init => TypeOK /\ CountInv /\ IsolationInv
    BY InitTypeOK, InitCount, InitIsolation
<1>2. TypeOK /\ CountInv /\ IsolationInv /\ [Next]_vars => (TypeOK /\ CountInv /\ IsolationInv)'
    BY TypeStep, CountStep, IsolationStep
<1>3. TypeOK /\ CountInv /\ IsolationInv /\ [Next]_vars
        => [\A s \in Slots : fd'[s] # fd[s] => -1 \in {fd[s], fd'[s]}]_vars
    BY OverwriteStep
<1> QED
    BY <1>1, <1>2, <1>3, PTL DEF Spec, NeverOverwritten

-----------------------------------------------------------------------------
\* What a slot's descriptor is open on: the connection of the client that logged in
\* there, or anything at all while that client's thread is closing.
LEMMA SlotOwner ==
    ASSUME TypeOK, CountInv, IsolationInv, NoRelogin,
           NEW s \in Slots, NEW c \in Conns, File(fd[s]) = c
    PROVE  SlotOf(c) = s \/ \E d \in Conns : Closing(d) /\ slot[d] = s
<1>1. fd[s] \in Fds /\ files[fd[s]] = c
    BY SlotFile
<1>2. s \in Registered /\ fd[s] # -1
    BY <1>1, ConstantTypes DEF Fds, TypeOK, TableOK
<1>3. CASE mpc \in {"count", "spawn"} /\ who = s
  <2>1. cur = c
    BY <1>1, <1>3 DEF IsolationInv, ExclusiveSlots
  <2> QED
    BY <1>3, <2>1 DEF SlotOf
<1>4. ASSUME NEW d \in Conns, slot[d] = s, pc[d] \notin {"none", "done"}
      PROVE  SlotOf(c) = s \/ \E e \in Conns : Closing(e) /\ slot[e] = s
  <2>1. CASE pc[d] \in Live
    <3>1. d = c
      BY <1>4, <2>1 DEF IsolationInv, SessionIsolation
    <3>2. mpc # "accept" => cur # c
      BY <1>4, <3>1 DEF CountInv, ConnectsOnce
    <3> QED
      BY <1>4, <3>1, <3>2 DEF SlotOf
  <2>2. CASE pc[d] \notin Live
    BY <1>4, <2>2 DEF Closing, Live, TypeOK, ThreadOK
  <2> QED
    BY <2>1, <2>2
<1> QED
    BY <1>2, <1>3, <1>4 DEF IsolationInv, OnlineHasThread

LEMMA WriteStep ==
    ASSUME TypeOK, NEW f, NEW x, Write(f, x), NEW c \in Conns, NEW y, y \in got'[c] \ got[c]
    PROVE  y = x /\ c = File(f)
BY DEF Write, TypeOK, AnswerOK

LEMMA DeliveryStep ==
    ASSUME TypeOK, CountInv, IsolationInv, [Next]_vars, NoRelogin,
           NEW c \in Conns, NEW x \in Ids, Misdelivered(c, x)
    PROVE  \E d \in Conns : Closing(d) /\ Id(slot[d]) = x
<1>1. got' # got /\ x \in got'[c] \ got[c] /\ Id(SlotOf(c)) # x
    BY DEF Misdelivered
<1>2. \E e \in Conns : SendToSlot(e) \/ SendReply(e)
    BY <1>1 DEF Next, vars, Client, Connect, SendLogin, SendMessage, Close, Server, Accept,
                CheckFull, ReadLogin, Scan, Kick, RegisterLock, RegisterCount, Spawn, Thread,
                EnterRead, ReadReturns, SendDone, CloseFd, ExitLock, ExitCount, ExitClear
<1>3. ASSUME NEW e \in Conns, SendToSlot(e)
      PROVE  \E d \in Conns : Closing(d) /\ Id(slot[d]) = x
  <2>1. idx[e] \in Slots /\ Write(fd[idx[e]], Id(idx[e]))
    BY <1>1, <1>3, ConstantTypes DEF SendToSlot, TypeOK, ThreadOK, Slots
  <2>2. x = Id(idx[e]) /\ c = File(fd[idx[e]])
    BY <1>1, <2>1, WriteStep
  <2> QED
    BY <1>1, <2>1, <2>2, SlotOwner
<1>4. ASSUME NEW e \in Conns, SendReply(e)
      PROVE  \E d \in Conns : Closing(d) /\ Id(slot[d]) = x
  <2>1. Write(mfd[e], Id(slot[e])) /\ mfd[e] = fd[slot[e]] /\ slot[e] \in Slots
    BY <1>4, SlotTypes DEF SendReply, IsolationInv, SessionIsolation, TypeOK, ThreadOK
  <2>2. x = Id(slot[e]) /\ c = File(fd[slot[e]])
    BY <1>1, <2>1, WriteStep
  <2> QED
    BY <1>1, <2>1, <2>2, SlotOwner
<1> QED
    BY <1>2, <1>3, <1>4

\* A message reaches another client than the one it is addressed to only through the
\* slot of a session whose thread is between close() and fd = -1.
THEOREM DeliveredToAddressee == Spec => MisdeliveryOnlyWhileClosing
<1>1. Init => TypeOK /\ CountInv /\ IsolationInv
    BY InitTypeOK, InitCount, InitIsolation
<1>2. TypeOK /\ CountInv /\ IsolationInv /\ [Next]_vars => (TypeOK /\ CountInv /\ IsolationInv)'
    BY TypeStep, CountStep, IsolationStep
<1>3. TypeOK /\ CountInv /\ IsolationInv /\ [Next]_vars
        => [NoRelogin => \A c \in Conns : \A x \in Ids :
              Misdelivered(c, x) => \E d \in Conns : Closing(d) /\ Id(slot[d]) = x]_vars
    BY DeliveryStep
<1> QED
    BY <1>1, <1>2, <1>3, PTL DEF Spec, MisdeliveryOnlyWhileClosing
=============================================================================
