----------------------------- MODULE ShmemDemo ------------------------------
(***************************************************************************)
(* qnx-apps/shared_memory/shmem_demo.c: processes that create or open one  *)
(* shared memory object by name and then exchange messages, each with one  *)
(* thread and over a channel of its own.  What a process would do after    *)
(* its first MsgSend is left out, and the text of the messages.  (main     *)
(* reads counter outside the block that declares it, line 294; the model   *)
(* takes it as declared before the loop.)                                  *)
(***************************************************************************)
EXTENDS QnxKernel

CONSTANTS
  Procs,        \* processes, each started as "both", "server" or "client"
  Roles

VARIABLES
  role,
  object,       \* which object the name stands for, 0 if none
  objects,      \* how many objects were created
  sized,        \* the objects that have a size
  mapped        \* the object each process has open

shmem_vars == <<role, object, objects, sized, mapped>>

ShmemInit ==
  /\ role \in [Procs -> Roles]
  /\ object = 0 /\ objects = 0 /\ sized = {}
  /\ mapped = [p \in Procs |-> 0]

-----------------------------------------------------------------------------
\* shmem_init creates the object unless there is one, or the call fails for another reason.
ShmCreate(p) ==
  /\ program = "shmem" /\ Running(p, "start")
  /\ \/ /\ object = 0
        /\ objects' = objects + 1 /\ object' = objects + 1
        /\ mapped' = [mapped EXCEPT ![p] = objects + 1]
        /\ Goto(p, "resize")
     \/ Goto(p, "open") /\ UNCHANGED <<object, objects, mapped>>
  /\ UNCHANGED <<role, sized>>

\* An object that exists is taken as it is.
ShmOpen(p) ==
  /\ Running(p, "open")
  /\ IF object = 0 THEN Exit({p}) /\ UNCHANGED mapped
     ELSE mapped' = [mapped EXCEPT ![p] = object] /\ Goto(p, "map")
  /\ UNCHANGED <<role, object, objects, sized>>

\* ftruncate; when it fails the name stays behind.
Resize(p) ==
  /\ Running(p, "resize")
  /\ \/ sized' = sized \cup {mapped[p]} /\ Goto(p, "map")
     \/ Exit({p}) /\ UNCHANGED sized
  /\ UNCHANGED <<role, object, objects, mapped>>

\* mmap, which does not look at the size of the object
Map(p) ==
  /\ Running(p, "map")
  /\ Goto(p, "connect") \/ Exit({p})
  /\ UNCHANGED shmem_vars

\* server_init and client_connect; a failure unlinks the name, whoever created what
\* it stands for.
ServerInit(p) ==
  /\ Running(p, "connect")
  /\ \/ Goto(p, "fill") /\ UNCHANGED object
     \/ Exit({p}) /\ object' = 0
  /\ UNCHANGED <<role, objects, sized, mapped>>

\* memset over the whole object, beyond its end unless it was given a size
Fill(p) ==
  /\ Running(p, "fill")
  /\ Goto(p, IF mapped[p] \notin sized THEN "fault"
             ELSE IF role[p] = "server" THEN "receive" ELSE "loop")
  /\ UNCHANGED shmem_vars


\* client_connect gets the channel this process created.
WhoseChannel(p) == {p}

\* The main loop begins with a write request, unless the process is only a server.
SendWrite(p) ==
  /\ Running(p, "loop")
  /\ \E channel \in WhoseChannel(p) : MsgSend(p, channel, "WRITE")
  /\ UNCHANGED shmem_vars

\* server_handle_msg: a request to quit is not replied to.
ServerHandleMsg(type) ==
  [status |-> IF type \in {"WRITE", "READ"} THEN 0 ELSE -1,
   replies |-> type # "QUIT", ends |-> type = "QUIT"]

ShmemStep(p) ==
  \/ ShmCreate(p) \/ ShmOpen(p) \/ Resize(p) \/ Map(p) \/ ServerInit(p) \/ Fill(p) \/ SendWrite(p)

-----------------------------------------------------------------------------
\* No process of the demo gets to its end: it fails while it sets up, faults on an object
\* that another process created and had not given its size (yet, or at all), or waits for
\* ever, a server because nobody else can reach its channel, and a client or "both"
\* because the thread that would receive its first message is the one that waits for the
\* answer.
Waits(p) == (pc[p] = "receive" /\ role[p] = "server") \/ (wait[p] = "sent" /\ role[p] # "server")
Faults(p) == pc[p] = "fault" /\ \E q \in Procs \ {p} : mapped[q] = mapped[p]

=============================================================================
