------------------------------ MODULE StackFiles ------------------------------
(***************************************************************************)
(* One stack, kept as a file .defang/<name> in a directory that several    *)
(* commands (and people) share, and as a record of the server.  Commands   *)
(* find it by --stack, by asking the user or as the default stack, import  *)
(* it, create it, deploy with it, make it the default or remove it         *)
(* (pkg/stacks, pkg/session, pkg/cli/stacks.go).                           *)
(***************************************************************************)
CONSTANTS
  Commands,
  Params    \* what a stack file may say

ASSUME StackAssumption ==
  /\ Params \cap {"none", "empty", "fallback"} = {}
  /\ "nobody" \notin Commands

\* "named": --stack; "prompt": the user selects; "default": neither is possible;
\* "new": defang stack new, "flags" if it may not ask; "setDefault", "remove":
\* defang stack default and rm.
Kinds == {"named", "prompt", "default", "new", "flags", "setDefault", "remove"}

\* "empty": the file is open for writing, or was never written: no parameters at
\* all, which is the Playground provider.
Contents == Params \union {"none", "empty"}
Running == {"start", "remote", "listed", "select", "load", "create", "write", "ready", "delete", "unlink"}

VARIABLES
  kind,       \* what each command is
  outside,    \* the command has no directory to keep stack files in
  pc,
  offered,    \* the stack is in the list that the user selects from
  loaded,     \* the parameters a command has come to
  file,       \* the stack file and the command whose open file it is
  remote,     \* the record of the server
  isDefault,  \* which may be the project's default stack
  torn        \* history: some command has read a file that was not written yet

options == <<kind, outside>>
store == <<file, remote, isDefault>>
vars == <<options, pc, offered, loaded, store, torn>>

NoFile == [owner |-> "nobody", content |-> "none"]

Init ==
  /\ kind \in [Commands -> Kinds]
  /\ outside \in [Commands -> BOOLEAN]
  /\ pc = [c \in Commands |-> "start"]
  /\ offered = [c \in Commands |-> FALSE]
  /\ loaded = [c \in Commands |-> "none"]
  /\ file \in [owner : {"nobody"}, content : Params \union {"none"}]
  /\ remote \in Params \union {"none"}
  /\ isDefault \in BOOLEAN /\ (isDefault => remote # "none")
  /\ torn = FALSE

Goto(c, label) == pc' = [pc EXCEPT ![c] = label]
Take(c, params) == loaded' = [loaded EXCEPT ![c] = params]
AfterLoad(c) == IF kind[c] = "remove" THEN "delete" ELSE "ready"

-----------------------------------------------------------------------------
\* LoadLocal: the file, if there is one, comes before the record.
LoadLocal(c) ==
  /\ \/ pc[c] = "start" /\ kind[c] \in {"named", "setDefault", "remove"}
     \/ pc[c] = "load"
  /\ \/ /\ file.content # "none" /\ ~outside[c]
        /\ Take(c, file.content)
        /\ torn' = (torn \/ file.content = "empty")
        /\ Goto(c, AfterLoad(c))
     \/ /\ file.content = "none" \/ outside[c]
        /\ Goto(c, "remote")
        /\ UNCHANGED <<loaded, torn>>
  /\ UNCHANGED <<options, offered, store>>

\* GetRemote; only a stack that was named is saved.
GetRemote(c) ==
  /\ pc[c] = "remote" /\ remote # "none"
  /\ Take(c, remote)
  /\ Goto(c, IF kind[c] = "named" /\ ~outside[c] THEN "create" ELSE AfterLoad(c))
  /\ UNCHANGED <<options, offered, store, torn>>

\* The list of stacks is that of the server and then that of the directory.
ListRemote(c) ==
  /\ pc[c] = "start" /\ kind[c] = "prompt"
  /\ offered' = [offered EXCEPT ![c] = remote # "none"]
  /\ Goto(c, "listed")
  /\ UNCHANGED <<options, loaded, store, torn>>

ListLocal(c) ==
  /\ pc[c] = "listed"
  /\ offered' = [offered EXCEPT ![c] = @ \/ (file.content # "none" /\ ~outside[c])]
  /\ Goto(c, "select")
  /\ UNCHANGED <<options, loaded, store, torn>>

Select(c) ==
  /\ pc[c] = "select" /\ offered[c]
  /\ Goto(c, "load")
  /\ UNCHANGED <<options, offered, loaded, store, torn>>

\* The wizard, for which `defang stack new` asks the server whether the name is
\* taken, or the flags, with which it does not ask.
Ask(c) ==
  /\ \/ pc[c] = "select"
     \/ pc[c] = "start" /\ kind[c] = "new" /\ remote = "none"
     \/ pc[c] = "start" /\ kind[c] = "flags"
  /\ \E p \in Params : Take(c, p)
  /\ Goto(c, "create")
  /\ UNCHANGED <<options, offered, store, torn>>

\* The default stack of the project, or one that is made up.
GetDefault(c) ==
  /\ pc[c] = "start" /\ kind[c] = "default"
  /\ Take(c, IF isDefault THEN remote ELSE "fallback")
  /\ Goto(c, "ready")
  /\ UNCHANGED <<options, offered, store, torn>>

-----------------------------------------------------------------------------
\* Fault of MayOpen: the file is opened without O_EXCL.
MayOpenAny(c) == ~outside[c]
MayOpen(c) == ~outside[c] /\ file.content = "none"

\* CreateInDirectory opens the file and then writes it.
Open(c) ==
  /\ pc[c] = "create" /\ MayOpen(c)
  /\ file' = [owner |-> c, content |-> "empty"]
  /\ Goto(c, "write")
  /\ UNCHANGED <<options, offered, loaded, remote, isDefault, torn>>

\* The open file may not be the one in the directory any more.
Write(c) ==
  /\ pc[c] = "write"
  /\ file' = IF file.owner = c THEN [file EXCEPT !.content = loaded[c]] ELSE file
  /\ Goto(c, "ready")
  /\ UNCHANGED <<options, offered, loaded, remote, isDefault, torn>>

\* Fault of AfterFailedWrite: the file is left behind.
LeftBehind == file
AfterFailedWrite == NoFile

WriteFails(c) ==
  /\ pc[c] = "write"
  /\ file' = AfterFailedWrite
  /\ Goto(c, "failed")
  /\ UNCHANGED <<options, offered, loaded, remote, isDefault, torn>>

-----------------------------------------------------------------------------
\* putDeploymentAndStack; the made-up stack is another one.
Deploy(c) ==
  /\ pc[c] = "ready" /\ kind[c] \in {"named", "prompt", "default"}
  /\ remote' = IF loaded[c] = "fallback" THEN remote ELSE loaded[c]
  /\ Goto(c, "done")
  /\ UNCHANGED <<options, offered, loaded, file, isDefault, torn>>

\* SetDefaultStack
SetDefault(c) ==
  /\ pc[c] = "ready" /\ kind[c] = "setDefault"
  /\ remote' = loaded[c] /\ isDefault' = TRUE
  /\ Goto(c, "done")
  /\ UNCHANGED <<options, offered, loaded, file, torn>>

\* RemoveStack: first the record, then the file of the working directory.
DeleteRemote(c) ==
  /\ pc[c] = "delete"
  /\ remote' = "none" /\ isDefault' = FALSE
  /\ Goto(c, "unlink")
  /\ UNCHANGED <<options, offered, loaded, file, torn>>

Unlink(c) ==
  /\ pc[c] = "unlink"
  /\ file' = NoFile
  /\ Goto(c, "done")
  /\ UNCHANGED <<options, offered, loaded, remote, isDefault, torn>>

\* A call fails, the file or the record exists or does not, the user cancels, or
\* the command is killed.
Fails(c) ==
  /\ pc[c] \in Running \ {"write"}
  /\ Goto(c, "failed")
  /\ UNCHANGED <<options, offered, loaded, store, torn>>

DiesWriting(c) ==
  /\ pc[c] = "write"
  /\ Goto(c, "dead")
  /\ UNCHANGED <<options, offered, loaded, store, torn>>

Load(c) == LoadLocal(c) \/ GetRemote(c)
SelectStack(c) == ListRemote(c) \/ ListLocal(c) \/ Select(c) \/ Ask(c)
Create(c) == Open(c) \/ Write(c) \/ WriteFails(c)
RemoveStack(c) == DeleteRemote(c) \/ Unlink(c)

Next == \E c \in Commands :
  \/ Load(c) \/ SelectStack(c) \/ GetDefault(c) \/ Create(c)
  \/ Deploy(c) \/ SetDefault(c) \/ RemoveStack(c) \/ Fails(c) \/ DiesWriting(c)

Spec == Init /\ [][Next]_vars

-----------------------------------------------------------------------------
\* Types of the variables.
TypeOK ==
  /\ kind \in [Commands -> Kinds] /\ outside \in [Commands -> BOOLEAN]
  /\ pc \in [Commands -> Running \union {"done", "failed", "dead"}]
  /\ offered \in [Commands -> BOOLEAN]
  /\ loaded \in [Commands -> Contents \union {"fallback"}]
  /\ file \in [owner : Commands \union {"nobody"}, content : Contents]
  /\ remote \in Contents /\ isDefault \in BOOLEAN /\ torn \in BOOLEAN

\* Unless a command read the file just then, the time between open and write
\* leaves nothing behind: an empty file is one whose writer is at it or died at
\* it, and nobody, the server included, has an empty stack (stacks.go:116-141).
EmptyExplained ==
  ~torn =>
    /\ file.content = "empty" => pc[file.owner] \in {"write", "dead"}
    /\ remote # "empty"
    /\ \A c \in Commands : loaded[c] # "empty"

\* What a stack file says never changes, whoever else imports, creates or deploys
\* the stack: only `stack rm` takes it away, or a writer that failed and believes
\* that the file is still its own (stacks.go:114-139).
FileKept ==
  [][file.content \in Params =>
       \/ file' = file
       \/ /\ file' = NoFile
          /\ \E c \in Commands : pc[c] \in {"unlink", "write"} /\ pc'[c] # pc[c]]_vars
===============================================================================
