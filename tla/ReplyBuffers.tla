---------------------------- MODULE ReplyBuffers -----------------------------
(***************************************************************************)
(* The output buffers (Platform/OutputMemory) that carry the reply to a    *)
(* command to those who wait for it: GCodes, in the Main task, stores it   *)
(* for the HTTP clients and on the USB port (HttpResponder, Platform); the *)
(* Network task gives it to each client that asks (SendGCodeReply), sends  *)
(* it piece by piece (NetworkResponder), and drops it when it is old or    *)
(* when the clients are gone (CheckSessions).  The buffers of a reply are  *)
(* shared, with a count of references.                                     *)
(*                                                                         *)
(* The length of a text is counted in halves of a buffer.  A client has    *)
(* one connection at a time; the HTTP header, which has buffers of its     *)
(* own, is left out.  What a mutex or a critical section encloses is one   *)
(* step.  No lock is common to the two tasks when they count in bytesRead  *)
(* what they have sent, so that each read and each write of it is a step.  *)
(***************************************************************************)
EXTENDS Naturals, Sequences, FiniteSets

CONSTANTS
  Buffers,       \* how many buffers there are
  Reserved,      \* RESERVED_OUTPUT_BUFFERS
  StackDepth,         \* OUTPUT_STACK_DEPTH
  Clients,
  MaxReplies     \* bound on the replies

\* What the constants may be.
ASSUME BuffersAssumption ==
  /\ Buffers \in Nat /\ Reserved \in Nat /\ Reserved < Buffers
  /\ StackDepth \in Nat \ {0} /\ MaxReplies \in Nat /\ IsFiniteSet(Clients)

VARIABLES
  buffer,                  \* the buffers
  gcodeReply, usbOutput,   \* stacks of chains, which are known by their heads
  outBuf, outStack,        \* what the responder of each client has to send
  sessions,                \* the clients that are logged in; numSessions of them
  clientsServed,
  sending,                 \* where the Network task is in SendData, for each client
  flushing,                \* where Main is in FlushMessages
  storing,                 \* where Main is with a reply
  chain, toUsb,            \* the reply it stores, and whether it goes to USB too
  replies

network == <<outBuf, outStack>>
main == <<storing, chain, toUsb, replies>>
counting == <<sending, flushing>>
vars == <<buffer, gcodeReply, usbOutput, network, sessions, clientsServed, main, counting>>

Null == 0
Full == 2
Beyond == Full + 1    \* bound: a count that has run past every length, by however much

\* Who sends has stopped before a step, with a count that it has read or is about
\* to write.
Access == [step : {"no", "send", "some", "all", "write", "read", "test", "release", "timeout"},
           count : 0 .. Beyond]
Before(step, count) == [step |-> step, count |-> count]
Resting == Before("no", 0)
Blank == [free |-> TRUE, next |-> Null, length |-> 0, bytesRead |-> 0, references |-> 0,
          isReferenced |-> FALSE]

TypeOK ==
  /\ buffer \in [1 .. Buffers ->
       [free : BOOLEAN, next : 0 .. Buffers, length : 0 .. Full, bytesRead : 0 .. Beyond,
        references : 0 .. 2 + Cardinality(Clients), isReferenced : BOOLEAN]]
  /\ gcodeReply \in Seq(1 .. Buffers) /\ Len(gcodeReply) <= StackDepth
  /\ usbOutput \in Seq(1 .. Buffers) /\ Len(usbOutput) <= StackDepth
  /\ outBuf \in [Clients -> 0 .. Buffers]
  /\ \A c \in Clients : outStack[c] \in Seq(1 .. Buffers) /\ Len(outStack[c]) <= StackDepth
  /\ sessions \subseteq Clients
  /\ clientsServed \in 0 .. Cardinality(Clients)
  /\ sending \in [Clients -> Access] /\ flushing \in Access
  /\ storing \in {"no", "text", "chain", "usb"}
  /\ chain \in 0 .. Buffers /\ toUsb \in BOOLEAN /\ replies \in 0 .. MaxReplies

Init ==
  /\ buffer = [b \in 1 .. Buffers |-> Blank]
  /\ gcodeReply = <<>> /\ usbOutput = <<>>
  /\ outBuf = [c \in Clients |-> Null] /\ outStack = [c \in Clients |-> <<>>]
  /\ sessions = {} /\ clientsServed = 0
  /\ sending = [c \in Clients |-> Resting] /\ flushing = Resting
  /\ storing = "no" /\ chain = Null /\ toUsb = FALSE /\ replies = 0

-----------------------------------------------------------------------------
(* Buffers and chains.                                                     *)

\* The buffers of the chain that starts with a given one: those in every set
\* that holds this one and the next of each of its buffers.
Chain(head) ==
  {b \in 1 .. Buffers :
     \A S \in SUBSET (1 .. Buffers) :
       {head} \cup {buffer[a].next : a \in S} \subseteq S \cup {Null} => b \in S}

ChainsOf(stack) == UNION {Chain(stack[i]) : i \in DOMAIN stack}

\* Allocate: whether it may take one, and which.
FreeBuffers == {b \in 1 .. Buffers : buffer[b].free}
MayAllocate(n) == Cardinality(FreeBuffers) >= Reserved + n
LastOf(head) == CHOOSE b \in Chain(head) : buffer[b].next = Null

\* A buffer that has been allocated and given its share of a text.
Used(length, references, next) ==
  [Blank EXCEPT !.free = FALSE, !.length = length, !.references = references, !.next = next]

\* Mutant of Release: the buffers are freed although others refer to them.
ReleaseAtOnce(S) == buffer' = [b \in 1 .. Buffers |-> IF b \in S THEN Blank ELSE buffer[b]]

\* Release, of the buffers of a chain, which it takes one by one.
Release(S) ==
  buffer' = [b \in 1 .. Buffers |->
               IF b \notin S THEN buffer[b]
               ELSE IF buffer[b].references > 1
               THEN [buffer[b] EXCEPT !.references = @ - 1, !.bytesRead = 0]
               ELSE Blank]

\* IncreaseReferences
Share(S) ==
  buffer' = [b \in 1 .. Buffers |->
               IF b \in S
               THEN [buffer[b] EXCEPT !.references = @ + 1, !.isReferenced = TRUE]
               ELSE buffer[b]]

\* BytesLeft, which underflows when more has been counted than there is.
BytesLeft(b) ==
  IF buffer[b].bytesRead > buffer[b].length THEN Beyond ELSE buffer[b].length - buffer[b].bytesRead

\* What bytesRead becomes when n more are counted.
Advanced(b, n) == IF buffer[b].bytesRead + n < Beyond THEN buffer[b].bytesRead + n ELSE Beyond

\* What is left of a stack when the chain of its first item has lost its first
\* buffers.
Behind(stack, head) == IF head = Null THEN Tail(stack) ELSE <<head>> \o Tail(stack)

-----------------------------------------------------------------------------
(* Main: replies to commands.                                              *)

\* A text goes to the clients that are logged in.
StartText ==
  /\ storing = "no" /\ flushing.step = "no" /\ replies < MaxReplies /\ sessions # {}
  /\ storing' = "text" /\ replies' = replies + 1
  /\ UNCHANGED <<buffer, gcodeReply, usbOutput, network, sessions, clientsServed, chain,
                 toUsb>>

\* cat: fills the last buffer of the chain, and another if it may have one.
Cat(head, length) ==
  LET last == LastOf(head)
      fits == IF buffer[last].length + length <= Full THEN length
              ELSE Full - buffer[last].length
      more == IF fits < length /\ MayAllocate(1)
              THEN CHOOSE b \in FreeBuffers : TRUE ELSE Null
  IN buffer' = [b \in 1 .. Buffers |->
       IF b = last
       THEN [buffer[b] EXCEPT !.length = @ + fits, !.next = more]
       ELSE IF b = more THEN Used(length - fits, buffer[head].references, Null)
       ELSE buffer[b]]

\* HandleGCodeReply of a text: it is added to the last reply, or becomes a new one.
StoreText ==
  /\ storing = "text" /\ storing' = "no"
  /\ \E length \in 1 .. Full :
       IF gcodeReply # <<>> /\ ~buffer[gcodeReply[Len(gcodeReply)]].isReferenced
       THEN /\ Cat(gcodeReply[Len(gcodeReply)], length)
            /\ clientsServed' = 0 /\ UNCHANGED gcodeReply
       ELSE IF MayAllocate(1) /\ Len(gcodeReply) < StackDepth
       THEN LET b == CHOOSE b \in FreeBuffers : TRUE
            IN /\ buffer' = [buffer EXCEPT ![b] = Used(length, 1, Null)]
               /\ gcodeReply' = Append(gcodeReply, b)
               /\ clientsServed' = 0
       ELSE UNCHANGED <<buffer, gcodeReply, clientsServed>>
  /\ UNCHANGED <<usbOutput, network, sessions, chain, toUsb, replies>>

\* A reply of one or two buffers, for the clients or for USB as well
\* (Platform::Message).  Without clients HTTP lets it go.
StartChain ==
  /\ storing = "no" /\ flushing.step = "no" /\ replies < MaxReplies /\ replies' = replies + 1
  /\ \E n \in 1 .. 2, usb \in BOOLEAN :
       /\ MayAllocate(n) /\ toUsb' = usb
       /\ LET head == CHOOSE b \in FreeBuffers : TRUE
              second == IF n = 1 THEN Null ELSE CHOOSE b \in FreeBuffers \ {head} : TRUE
              holders == (IF sessions # {} THEN 1 ELSE 0) + (IF usb THEN 1 ELSE 0)
          IN IF holders = 0
             THEN /\ storing' = "no" /\ UNCHANGED <<buffer, chain>>
             ELSE /\ chain' = head
                  /\ storing' = IF sessions # {} THEN "chain" ELSE "usb"
                  /\ buffer' = [b \in 1 .. Buffers |->
                       IF b = head
                       THEN [Used(Full, holders, second) EXCEPT !.isReferenced = usb]
                       ELSE IF b = second
                       THEN [Used(Full, holders, Null) EXCEPT !.isReferenced = usb]
                       ELSE buffer[b]]
  /\ UNCHANGED <<gcodeReply, usbOutput, network, sessions, clientsServed>>

\* HandleGCodeReply of a chain; a stack that is full releases it.
StoreChain ==
  /\ storing = "chain"
  /\ IF Len(gcodeReply) < StackDepth
     THEN gcodeReply' = Append(gcodeReply, chain) /\ UNCHANGED buffer
     ELSE Release(Chain(chain)) /\ UNCHANGED gcodeReply
  /\ clientsServed' = 0
  /\ storing' = (IF toUsb THEN "usb" ELSE "no") /\ chain' = (IF toUsb THEN chain ELSE Null)
  /\ UNCHANGED <<usbOutput, network, sessions, toUsb, replies>>

\* AppendUsbReply; the port may not be connected.
StoreUsb ==
  /\ storing = "usb" /\ storing' = "no" /\ chain' = Null /\ toUsb' = FALSE
  /\ \/ /\ Len(usbOutput) < StackDepth
        /\ usbOutput' = Append(usbOutput, chain) /\ UNCHANGED buffer
     \/ Release(Chain(chain)) /\ UNCHANGED usbOutput
  /\ UNCHANGED <<gcodeReply, network, sessions, clientsServed, replies>>

\* FlushMessages goes on with the first buffer for USB: Main has usbMutex.
Flush(step) ==
  /\ flushing.step = step
  /\ UNCHANGED <<gcodeReply, network, sessions, clientsServed, main, sending>>

FlushStart == Flush("no") /\ storing = "no" /\ usbOutput # <<>>

\* The port is not connected.
DropUsb ==
  /\ FlushStart
  /\ Release(Chain(Head(usbOutput))) /\ usbOutput' = Tail(usbOutput) /\ UNCHANGED flushing

LookAtUsb ==
  /\ FlushStart
  /\ flushing' = Before("write", BytesLeft(Head(usbOutput))) /\ UNCHANGED <<buffer, usbOutput>>

\* Read returns what the port can take, of what was left, and counts it.
WriteUsb ==
  /\ Flush("write")
  /\ \E n \in 0 .. Full :
       /\ n <= flushing.count
       /\ flushing' = IF n = 0 THEN Before("test", 0)
                      ELSE Before("read", Advanced(Head(usbOutput), n))
  /\ UNCHANGED <<buffer, usbOutput>>

CountUsb ==
  /\ Flush("read")
  /\ buffer' = [buffer EXCEPT ![Head(usbOutput)].bytesRead = flushing.count]
  /\ flushing' = Before("test", 0) /\ UNCHANGED usbOutput

TestUsb ==
  /\ Flush("test")
  /\ flushing' = Before(IF BytesLeft(Head(usbOutput)) = 0 THEN "release" ELSE "timeout", 0)
  /\ UNCHANGED <<buffer, usbOutput>>

ReleaseFirst ==
  /\ Release({Head(usbOutput)})
  /\ usbOutput' = Behind(usbOutput, buffer[Head(usbOutput)].next)

\* ReleaseFirstItem, and once more round the loop.
ReleaseUsb == Flush("release") /\ ReleaseFirst /\ flushing' = Resting

\* ApplyTimeout gives up the buffers that are too old.
TimeOutUsb ==
  /\ Flush("timeout")
  /\ \/ ReleaseFirst
        /\ flushing' = IF buffer[Head(usbOutput)].next = Null THEN Resting ELSE flushing
     \/ flushing' = Resting /\ UNCHANGED <<buffer, usbOutput>>

-----------------------------------------------------------------------------
(* The Network task.                                                       *)

Idle(c) == outBuf[c] = Null /\ outStack[c] = <<>>

\* It is in none of the responders' SendData.
Polling == UNCHANGED counting /\ \A c \in Clients : sending[c].step = "no"

Connect(c) ==
  /\ Polling /\ c \notin sessions /\ sessions' = sessions \cup {c}
  /\ UNCHANGED <<buffer, gcodeReply, usbOutput, network, clientsServed, main>>

Disconnect(c) ==
  /\ Polling /\ c \in sessions /\ Idle(c) /\ sessions' = sessions \ {c}
  /\ UNCHANGED <<buffer, gcodeReply, usbOutput, network, clientsServed, main>>

\* SendGCodeReply: the reply is kept while there are clients to be served.
Fetch(c) ==
  /\ Polling /\ c \in sessions /\ Idle(c) /\ gcodeReply # <<>>
  /\ IF clientsServed + 1 < Cardinality(sessions)
     THEN Share(ChainsOf(gcodeReply)) /\ UNCHANGED gcodeReply
     ELSE gcodeReply' = <<>> /\ UNCHANGED buffer
  /\ clientsServed' = clientsServed + 1
  /\ outStack' = [outStack EXCEPT ![c] = gcodeReply]
  /\ UNCHANGED <<usbOutput, outBuf, sessions, main>>

\* SendData goes on with a buffer of a client.
Send(c, steps) ==
  /\ sending[c].step \in steps
  /\ UNCHANGED <<gcodeReply, usbOutput, sessions, clientsServed, main, flushing>>

\* It looks how much is left of the buffer, and that of the next chain when none
\* is under way.
LookAtBuffer(c) ==
  /\ \A d \in Clients : sending[d].step = "no"
  /\ Send(c, {"no"}) /\ ~Idle(c)
  /\ IF outBuf[c] # Null
     THEN UNCHANGED network
     ELSE /\ outBuf' = [outBuf EXCEPT ![c] = Head(outStack[c])]
          /\ outStack' = [outStack EXCEPT ![c] = Tail(@)]
  /\ LET left == BytesLeft(outBuf'[c])
     IN sending' = [sending EXCEPT ![c] = Before(IF left = 0 THEN "release" ELSE "send", left)]
  /\ UNCHANGED buffer

\* The socket takes some of it, or nothing.
SendBuffer(c) ==
  /\ Send(c, {"send"})
  /\ \E n \in 0 .. Full :
       /\ n <= sending[c].count
       /\ sending' = [sending EXCEPT ![c] =
            IF n = 0 THEN Resting
            ELSE Before(IF n < @.count THEN "some" ELSE "all", Advanced(outBuf[c], n))]
  /\ UNCHANGED <<buffer, network>>

\* Taken counts it.
CountSent(c) ==
  /\ Send(c, {"some", "all"})
  /\ buffer' = [buffer EXCEPT ![outBuf[c]].bytesRead = sending[c].count]
  /\ sending' = [sending EXCEPT ![c] = IF @.step = "all" THEN Before("release", 0) ELSE Resting]
  /\ UNCHANGED network

\* When it was all, the buffer is released; SendData goes on with the next.
ReleaseSent(c) ==
  /\ Send(c, {"release"})
  /\ Release({outBuf[c]}) /\ outBuf' = [outBuf EXCEPT ![c] = buffer[@].next]
  /\ sending' = [sending EXCEPT ![c] = Resting] /\ UNCHANGED outStack

\* The socket takes nothing more; or the network was stopped.
ConnectionLost(c) ==
  /\ \A d \in Clients \ {c} : sending[d].step = "no"
  /\ Send(c, {"no", "send"}) /\ ~Idle(c)
  /\ Release(Chain(outBuf[c]) \cup ChainsOf(outStack[c]))
  /\ outBuf' = [outBuf EXCEPT ![c] = Null] /\ outStack' = [outStack EXCEPT ![c] = <<>>]
  /\ sending' = [sending EXCEPT ![c] = Resting]

\* CheckSessions, when clients have timed out.
TimeOutClients ==
  /\ Polling
  /\ \E gone \in SUBSET sessions \ {{}} :
       /\ sessions' = sessions \ gone
       /\ IF clientsServed + Cardinality(gone) >= Cardinality(sessions')
          THEN Release(ChainsOf(gcodeReply)) /\ gcodeReply' = <<>>
          ELSE UNCHANGED <<buffer, gcodeReply>>
  /\ clientsServed' = 0
  /\ UNCHANGED <<usbOutput, network, main>>

\* CheckSessions, when none has: ApplyTimeout gives up the first buffers of the
\* oldest reply.
TimeOutReply ==
  /\ Polling /\ gcodeReply # <<>>
  /\ \E rest \in Chain(Head(gcodeReply)) \cup {Null} :
       /\ rest # Head(gcodeReply)
       /\ Release(Chain(Head(gcodeReply)) \ Chain(rest))
       /\ gcodeReply' = Behind(gcodeReply, rest)
  /\ UNCHANGED <<usbOutput, network, sessions, clientsServed, main>>

-----------------------------------------------------------------------------
Store == UNCHANGED counting /\ (StartText \/ StoreText \/ StartChain \/ StoreChain \/ StoreUsb)
FlushUsb == DropUsb \/ LookAtUsb \/ WriteUsb \/ CountUsb \/ TestUsb \/ ReleaseUsb \/ TimeOutUsb
SendData(c) == LookAtBuffer(c) \/ SendBuffer(c) \/ CountSent(c) \/ ReleaseSent(c)
Serve(c) == Connect(c) \/ Disconnect(c) \/ Fetch(c) \/ SendData(c) \/ ConnectionLost(c)

Next ==
  \/ Store \/ FlushUsb
  \/ \E c \in Clients : Serve(c)
  \/ TimeOutClients \/ TimeOutReply

Spec == Init /\ [][Next]_vars

-----------------------------------------------------------------------------
(* Properties.                                                             *)

\* The chains that somebody holds, each as a set of buffers.
Holdings(b) ==
  Cardinality({i \in DOMAIN gcodeReply : b \in Chain(gcodeReply[i])})
  + Cardinality({i \in DOMAIN usbOutput : b \in Chain(usbOutput[i])})
  + Cardinality({c \in Clients : b \in Chain(outBuf[c])})
  + Cardinality({ci \in Clients \X (1 .. StackDepth) :
       /\ ci[2] \in DOMAIN outStack[ci[1]] /\ b \in Chain(outStack[ci[1]][ci[2]])})
  + (CASE storing = "chain" /\ b \in Chain(chain) -> IF toUsb THEN 2 ELSE 1
       [] storing = "usb" /\ b \in Chain(chain) -> 1
       [] OTHER -> 0)

\* A buffer is referenced as often as it says, whoever lets go of it first: none
\* is free while a stack or a responder reaches it, and none is lost.
BuffersAreAccounted ==
  \A b \in 1 .. Buffers :
    /\ buffer[b].references = Holdings(b)
    /\ buffer[b].free <=> Holdings(b) = 0

=============================================================================
