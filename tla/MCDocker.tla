------------------------------ MODULE MCDocker ------------------------------
(* What waits for a service: operations on containers, the check for image  *)
(* updates, messages that delete themselves, and the Docker client of a     *)
(* thread.  They share no state: a behaviour runs one of them.              *)
(* Two admins press the start button of one container on two threads; the   *)
(* table of times, like the session store, has room for one of them.        *)
EXTENDS ContainerOperations

CONSTANTS
    w1, w2, a1, a2,
    Repos, Official, MaxConcurrent, PerHost, MaxRetries,
    Readers, Chats, Senders, MaxPending, MaxMessages,
    HealthInterval, TestRetries

VARIABLES
    part,  \* "operations", "updates", "messages" or "client"
    check, repo, limited, late,
    tasks, pending, threads, sender, chat, botAlive,
    mode, client, checked, visit, daemonUp, downSeen, proven

Images == INSTANCE ImageUpdates
Messages == INSTANCE MessageDeletion WITH Users <- Readers
Adapter == INSTANCE DockerClient

ASSUME ServiceConstants ==
    Images!UpdateConstants /\ Messages!DeletionConstants /\ Adapter!AdapterConstants

imageVars == <<check, repo, limited, late>>
messageVars == <<tasks, pending, threads, sender, chat, botAlive>>
clientVars == <<mode, client, checked, visit, daemonUp, downSeen, proven>>
allVars == <<part, vars, imageVars, messageVars, clientVars>>

MCInit ==
    /\ part \in {"operations", "updates", "messages", "client"}
    /\ Init /\ Images!UpdatesInit /\ Messages!DeletionInit /\ Adapter!AdapterInit
    /\ part # "operations" => status = "exited"
    /\ part # "client" => mode = [strict |-> FALSE, disabled |-> FALSE] /\ daemonUp

OperationStep ==
    part = "operations" /\ Next /\ UNCHANGED <<part, imageVars, messageVars, clientVars>>
ImageStep ==
    part = "updates" /\ Images!UpdatesNext /\ UNCHANGED <<part, vars, messageVars, clientVars>>
MessageStep ==
    part = "messages" /\ Messages!DeletionNext /\ UNCHANGED <<part, vars, imageVars, clientVars>>
ClientStep ==
    part = "client" /\ Adapter!AdapterNext /\ UNCHANGED <<part, vars, imageVars, messageVars>>

\* Each call goes on; for the other parts it is enough that something does.
MCSpec ==
    /\ MCInit /\ [][OperationStep \/ ImageStep \/ MessageStep \/ ClientStep]_allVars
    /\ \A w \in Workers : WF_vars(part = "operations" /\ Serve(w))
    /\ WF_imageVars(part = "updates" /\ Images!Proceed)
    /\ WF_messageVars(part = "messages" /\ Messages!Proceed)

----------------------------------------------------------------------------
(* Once Docker Hub set a limit, few repositories still ask it.               *)
FewAfterLimit == Images!FewAfterLimit

(* A check for updates ends, whatever fails and is tried again, with what    *)
(* the tags that came say.                                                   *)
ChecksAreAnswered == Images!EveryCheckEnds /\ [][Images!AnswerIsTrue']_imageVars

(* Every place of the deletion manager is a thread's, which will give it     *)
(* back unless it could not be started, and none is taken beyond the limit.  *)
PlacesAreHeld == Messages!PlacesAreHeld

(* A message sent with the promise to delete itself is deleted, or the       *)
(* attempt failed, or its reader was warned, or the handler ended in an error.*)
PromiseKept == Messages!PromiseKept

(* The Docker client that is used is what it seems: refusing everything only *)
(* when Docker did, and real only if Docker answered lately.                 *)
ClientIsHonest == Adapter!ClientIsHonest
=============================================================================
