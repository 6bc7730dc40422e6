------------------------- MODULE StackFiles_proofs -------------------------
(***************************************************************************)
(* What the exclusive creation of stack files guarantees for any number of *)
(* commands on one stack.                                                  *)
(***************************************************************************)
EXTENDS StackFiles, TLAPS

\* Only a command without a stack makes one up, and it never creates a file.
MadeUp ==
  \A c \in Commands :
    /\ loaded[c] = "fallback" => kind[c] = "default"
    /\ kind[c] = "default" => pc[c] \notin {"remote", "listed", "select", "load", "create", "write"}

\* The open file of a command is empty until the command has written it.
OpenIsEmpty ==
  /\ \A c \in Commands : pc[c] = "write" /\ file.owner = c => file.content = "empty"
  /\ file.content = "empty" => file.owner \in Commands \/ torn

IInv == TypeOK /\ MadeUp /\ OpenIsEmpty /\ EmptyExplained

PcLabels == Running \union {"done", "failed", "dead"}

-----------------------------------------------------------------------------
LEMMA InitIInv == Init => IInv
<1> SUFFICES ASSUME Init PROVE IInv
  OBVIOUS
<1> USE StackAssumption DEF StackAssumption
<1>1. TypeOK
  BY DEF Init, TypeOK, Contents, Running
<1>2. MadeUp /\ OpenIsEmpty
  BY DEF Init, MadeUp, OpenIsEmpty
<1>3. EmptyExplained
  BY DEF Init, EmptyExplained
<1> QED
  BY <1>1, <1>2, <1>3 DEF IInv

\* Finding a stack leaves file and record alone; a command that comes to create
\* one did not make it up.
LEMMA FindStep ==
  ASSUME IInv, NEW c \in Commands, Load(c) \/ SelectStack(c) \/ GetDefault(c)
  PROVE  IInv'
<1> USE StackAssumption DEF StackAssumption, IInv, options, store, Goto, Take
<1>1. /\ UNCHANGED <<options, store>>
      /\ pc[c] \in {"start", "remote", "listed", "select", "load"}
      /\ pc' = [pc EXCEPT ![c] = pc'[c]]
      /\ pc'[c] \in {"remote", "create", "delete", "ready", "listed", "select", "load"}
      /\ loaded' = [loaded EXCEPT ![c] = loaded'[c]]
      /\ \/ loaded'[c] = loaded[c] /\ torn' = torn
         \/ /\ loaded'[c] \in Params \union {"fallback", remote} /\ loaded'[c] \in Contents \union {"fallback"}
            /\ torn' = torn
         \/ loaded'[c] = file.content /\ torn' = (torn \/ file.content = "empty")
      /\ loaded'[c] = "fallback" => kind[c] = "default"
      /\ kind[c] = "default" => pc'[c] = "ready"
      /\ offered' \in [Commands -> BOOLEAN]
  <2>1. CASE LoadLocal(c)
    BY <2>1 DEF LoadLocal, AfterLoad, TypeOK, MadeUp, Contents
  <2>2. CASE GetRemote(c)
    BY <2>2 DEF GetRemote, AfterLoad, TypeOK, MadeUp, Contents
  <2>3. CASE ListRemote(c) \/ ListLocal(c) \/ Select(c)
    BY <2>3 DEF ListRemote, ListLocal, Select, TypeOK, MadeUp
  <2>4. CASE Ask(c)
    BY <2>4 DEF Ask, TypeOK, MadeUp, Contents
  <2>5. CASE GetDefault(c)
    BY <2>5 DEF GetDefault, TypeOK, MadeUp, Contents
  <2> QED
    BY <2>1, <2>2, <2>3, <2>4, <2>5 DEF Load, SelectStack
<1>2. TypeOK'
  <2>1. loaded' \in [Commands -> Contents \union {"fallback"}]
    BY <1>1 DEF TypeOK
  <2>2. pc' \in [Commands -> PcLabels]
    BY <1>1 DEF TypeOK, PcLabels, Running
  <2>3. torn' \in BOOLEAN
    BY <1>1 DEF TypeOK
  <2> QED
    BY <1>1, <2>1, <2>2, <2>3 DEF TypeOK, PcLabels
<1>3. MadeUp'
  BY <1>1 DEF TypeOK, MadeUp
<1>4. OpenIsEmpty'
  BY <1>1 DEF TypeOK, OpenIsEmpty
<1>5. EmptyExplained'
  <2> SUFFICES ASSUME ~torn' PROVE EmptyExplained'
    BY DEF EmptyExplained
  <2>1. ~torn
    BY <1>1
  <2>2. loaded'[c] # "empty"
    BY <1>1, <2>1 DEF EmptyExplained
  <2>3. \A x \in Commands : loaded'[x] # "empty"
    BY <1>1, <2>1, <2>2 DEF TypeOK, EmptyExplained
  <2>4. file.content = "empty" => pc'[file.owner] \in {"write", "dead"}
    BY <1>1, <2>1 DEF TypeOK, OpenIsEmpty, EmptyExplained
  <2> QED
    BY <1>1, <2>1, <2>3, <2>4 DEF EmptyExplained
<1> QED
  BY <1>2, <1>3, <1>4, <1>5

LEMMA CreateStep ==
  ASSUME IInv, NEW c \in Commands, Create(c) \/ Fails(c) \/ DiesWriting(c)
  PROVE  IInv'
<1> USE StackAssumption DEF StackAssumption, IInv, options, store, Goto
<1>1. CASE Open(c)
  BY <1>1 DEF Open, MayOpen, TypeOK, MadeUp, OpenIsEmpty, EmptyExplained, Contents, Running
<1>2. CASE Write(c)
  <2> USE <1>2 DEF Write
  <2>1. loaded[c] \in Contents
    BY DEF TypeOK, MadeUp
  <2>2. TypeOK' /\ MadeUp'
    BY <2>1 DEF TypeOK, MadeUp, Running
  <2>3. OpenIsEmpty'
    BY DEF TypeOK, OpenIsEmpty, EmptyExplained
  <2>4. EmptyExplained'
    BY DEF TypeOK, EmptyExplained
  <2> QED
    BY <2>2, <2>3, <2>4
<1>3. CASE WriteFails(c)
  BY <1>3 DEF WriteFails, AfterFailedWrite, NoFile, TypeOK, MadeUp, OpenIsEmpty, EmptyExplained, Contents, Running
<1>4. CASE Fails(c)
  BY <1>4 DEF Fails, TypeOK, MadeUp, OpenIsEmpty, EmptyExplained, Running
<1>5. CASE DiesWriting(c)
  BY <1>5 DEF DiesWriting, TypeOK, MadeUp, OpenIsEmpty, EmptyExplained
<1> QED
  BY <1>1, <1>2, <1>3, <1>4, <1>5 DEF Create

LEMMA UseStep ==
  ASSUME IInv, NEW c \in Commands, Deploy(c) \/ SetDefault(c) \/ RemoveStack(c)
  PROVE  IInv'
<1> USE StackAssumption DEF StackAssumption, IInv, options, store, Goto
<1>1. CASE Deploy(c)
  BY <1>1 DEF Deploy, TypeOK, MadeUp, OpenIsEmpty, EmptyExplained, Contents
<1>2. CASE SetDefault(c)
  BY <1>2 DEF SetDefault, TypeOK, MadeUp, OpenIsEmpty, EmptyExplained, Contents
<1>3. CASE DeleteRemote(c)
  BY <1>3 DEF DeleteRemote, TypeOK, MadeUp, OpenIsEmpty, EmptyExplained, Contents, Running
<1>4. CASE Unlink(c)
  BY <1>4 DEF Unlink, NoFile, TypeOK, MadeUp, OpenIsEmpty, EmptyExplained, Contents
<1> QED
  BY <1>1, <1>2, <1>3, <1>4 DEF RemoveStack

LEMMA Invariance == Spec => []IInv
<1>1. IInv /\ [Next]_vars => IInv'
  <2> SUFFICES ASSUME IInv, [Next]_vars PROVE IInv'
    OBVIOUS
  <2>1. CASE Next
    BY <2>1, FindStep, CreateStep, UseStep DEF Next
  <2>2. CASE UNCHANGED vars
    BY <2>2 DEF vars, options, store, IInv, TypeOK, MadeUp, OpenIsEmpty, EmptyExplained
  <2> QED
    BY <2>1, <2>2
<1> QED
  BY <1>1, InitIInv, PTL DEF Spec

\* Every variable keeps its type.
THEOREM TypeCorrect == Spec => []TypeOK
<1>1. IInv => TypeOK
  BY DEF IInv
<1> QED
  BY <1>1, Invariance, PTL

\* An empty stack file is being written or was left by a command that died at
\* it, unless another one had read the file before it was written.
THEOREM EmptyIsExplained == Spec => []EmptyExplained
<1>1. IInv => EmptyExplained
  BY DEF IInv
<1> QED
  BY <1>1, Invariance, PTL

\* However many commands import, create or deploy the stack, what its file says
\* is not changed, only taken away.
THEOREM FileIsKept == Spec => FileKept
<1>1. IInv /\ [Next]_vars =>
        [file.content \in Params =>
           \/ file' = file
           \/ /\ file' = NoFile
              /\ \E c \in Commands : pc[c] \in {"unlink", "write"} /\ pc'[c] # pc[c]]_vars
  <2> SUFFICES ASSUME IInv, Next, file.content \in Params, file' # file
      PROVE  /\ file' = NoFile
             /\ \E c \in Commands : pc[c] \in {"unlink", "write"} /\ pc'[c] # pc[c]
    BY DEF vars, store
  <2> USE StackAssumption DEF StackAssumption, IInv, Goto, store
  <2>1. PICK c \in Commands : \/ Load(c) \/ SelectStack(c) \/ GetDefault(c) \/ Create(c)
                              \/ Deploy(c) \/ SetDefault(c) \/ RemoveStack(c)
                              \/ Fails(c) \/ DiesWriting(c)
    BY DEF Next
  <2>2. Open(c) \/ Write(c) \/ WriteFails(c) \/ Unlink(c)
    BY <2>1 DEF Load, LoadLocal, GetRemote, SelectStack, ListRemote, ListLocal, Select, Ask,
                GetDefault, Create, Deploy, SetDefault, RemoveStack, DeleteRemote, Fails, DiesWriting
  <2>3. ~Open(c)
    BY DEF Open, MayOpen
  <2>4. ~Write(c)
    BY DEF Write, OpenIsEmpty
  <2>5. CASE WriteFails(c) \/ Unlink(c)
    BY <2>5 DEF WriteFails, AfterFailedWrite, Unlink, TypeOK
  <2> QED
    BY <2>2, <2>3, <2>4, <2>5
<1> QED
  BY <1>1, Invariance, PTL DEF Spec, FileKept
=============================================================================
