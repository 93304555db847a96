--------------------------- MODULE StorageFolder ---------------------------
(***************************************************************************)
(* The files of one replica.  The receiving goroutine writes each CID that *)
(* is published to it in a file of the folder remote/, and the time of     *)
(* arrival in a second one (CheckForRemoteUpdates); the main loop reads    *)
(* and removes them (CheckUpdate).  Nothing but the names of the files     *)
(* orders the two.                                                         *)
(*                                                                         *)
(* Names come from the counter nextNodeName, which counts the files of the *)
(* replica's own updates and of its folder rootNode/ as well.  The         *)
(* constructor of CLSet returns the object whose manager the receiver      *)
(* uses, and the two threads increment one counter without a lock          *)
(* (Shared).  The one of 2PSet returns a copy, so that the receiver counts *)
(* on a counter of its own.  CLSetDelta is as CLSet in all this.           *)
(*                                                                         *)
(* StrSet is the set without a CRDT (NoConcurrency/ipfs_only.go): one      *)
(* goroutine updates and scans, the receiver writes no time of arrival,    *)
(* the counter is shared, and a received set replaces the local one.       *)
(***************************************************************************)
EXTENDS Naturals, Sequences, FiniteSets

CONSTANTS Message,    \* the CIDs published to the replica
          Set,        \* the sets: some of "2PSet", "CLSet", "StrSet"
          Base,       \* the base names are written in, 10 in the code
          MaxName,    \* bound: names the receiver and the updates use
          MaxUpdates  \* bound: names local updates and rootNode/ take

ASSUME SetAssumption == Set \subseteq {"2PSet", "CLSet", "StrSet"}
ASSUME BaseAssumption == Base \in Nat \ {0, 1} /\ MaxName < Base * Base
ASSUME BoundAssumption == MaxName \in Nat /\ MaxUpdates \in Nat

None == "none"
ASSUME NoneAssumption == {None, "absent", "empty"} \cap Message = {}

Name == 0..MaxName
Thread == {"receiver", "updater"}

VARIABLES
  set,           \* whose constructor and CheckUpdate run, chosen once
  incoming,      \* messages pubsub has not handed over yet
  nextNodeName,  \* nextNodeName[k]: the counter k
  loaded,        \* loaded[t]: what t read to increment, if it is incrementing
  updates,       \* names taken so far by local updates and rootNode/
  receiver,      \* the receiving goroutine: its next step, the message and
                 \* the name it is working with
  data,          \* data[n]: remote/n: "absent", "empty", or the message in it
  arrival,       \* arrival[n]: remote/n.ArrivalTime: absent, empty, written
  listed,        \* names CheckUpdate found in the folder and has yet to read
  reading,       \* the file it is reading: its next step, name and content
  collected,     \* collected[m]: how often m was collected (to_add)
  given,         \* history, StrSet: the messages received, with their names
  applied        \* StrSet: the messages that replaced the set; the last is it

vars == <<set, incoming, nextNodeName, loaded, updates, receiver, data, arrival,
          listed, reading, collected, given, applied>>
counterVars == <<set, nextNodeName, loaded, updates>>
scanVars == <<listed, reading, collected>>
setVars == <<given, applied>>

Shared == set # "2PSet"

Counter_OneForAll(t) == "receiver"

\* The counter a thread uses.
Counter(t) == IF Shared \/ t = "receiver" THEN "receiver" ELSE "updater"

Waiting == [step |-> "waiting", msg |-> None, name |-> 0]
NotReading == [step |-> "idle", name |-> 0, msg |-> None]

TypeOK ==
  /\ set \in Set
  /\ incoming \in SUBSET Message
  /\ nextNodeName \in [{"receiver", "updater"} -> 0..(MaxName + 1)]
  /\ loaded \in [Thread -> SUBSET Name]
  /\ updates \in 0..MaxUpdates
  /\ receiver \in [step : {"waiting", "count", "remove", "create", "write", "stamp", "time"},
                   msg : Message \cup {None}, name : Name]
  /\ data \in [Name -> {"absent", "empty"} \cup Message]
  /\ arrival \in [Name -> {"absent", "empty", "written"}]
  /\ listed \in SUBSET Name
  /\ reading \in [step : {"idle", "check", "get", "count", "remove", "time", "panic"},
                  name : Name, msg : {None, "empty"} \cup Message]
  /\ collected \in [Message -> 0..2]
  /\ given \in Seq([msg : Message, name : Name])
  /\ applied \in Seq(Message)

Init ==
  /\ set \in Set
  /\ incoming = Message
  /\ nextNodeName = [k \in {"receiver", "updater"} |-> 0]
  /\ loaded = [t \in Thread |-> {}]
  /\ updates = 0
  /\ receiver = Waiting
  /\ data = [n \in Name |-> "absent"]
  /\ arrival = [n \in Name |-> "absent"]
  /\ listed = {}
  /\ reading = NotReading
  /\ collected = [m \in Message |-> 0]
  /\ given = <<>>
  /\ applied = <<>>

\* A panic ends the program.
Running == reading.step # "panic"

-----------------------------------------------------------------------------
\* nextNodeName += 1 is a load and a store.
Load(t) ==
  /\ Running
  /\ loaded[t] = {}
  /\ nextNodeName[Counter(t)] <= MaxName
  /\ loaded' = [loaded EXCEPT ![t] = {nextNodeName[Counter(t)]}]

Increment(t) ==
  /\ Running
  /\ \E n \in loaded[t] : nextNodeName' = [nextNodeName EXCEPT ![Counter(t)] = n + 1]
  /\ loaded' = [loaded EXCEPT ![t] = {}]

\* An update takes a name for the file of its node (NextFileName); it, or a
\* merge, takes one per root (UpdateRootNodeFolder).  SendFile of StrSet is
\* called between two scans.
StartUpdate ==
  /\ set = "StrSet" => reading = NotReading /\ listed = {}
  /\ updates < MaxUpdates
  /\ updates' = updates + 1
  /\ Load("updater")
  /\ UNCHANGED <<set, incoming, nextNodeName, receiver, data, arrival, scanVars, setVars>>

EndUpdate ==
  /\ reading.step # "count"
  /\ Increment("updater")
  /\ UNCHANGED <<set, incoming, updates, receiver, data, arrival, scanVars, setVars>>

-----------------------------------------------------------------------------
Step(s) == receiver.step = s /\ Running

\* A message is handed over; NextRemoteFileName reads the name...
Receive(m) ==
  /\ Step("waiting")
  /\ m \in incoming
  /\ nextNodeName["receiver"] <= MaxName
  /\ incoming' = incoming \ {m}
  /\ receiver' = [step |-> "count", msg |-> m, name |-> nextNodeName["receiver"]]
  /\ given' = IF set = "StrSet" THEN Append(given, [msg |-> m, name |-> nextNodeName["receiver"]])
                                ELSE given
  /\ UNCHANGED <<counterVars, data, arrival, scanVars, applied>>

\* ... then reads the counter again to increment it.
LoadName ==
  /\ Step("count")
  /\ Load("receiver")
  /\ UNCHANGED <<set, incoming, nextNodeName, updates, receiver, data, arrival, scanVars, setVars>>

CountName ==
  /\ Step("count")
  /\ Increment("receiver")
  /\ receiver' = [receiver EXCEPT !.step = "remove"]
  /\ UNCHANGED <<set, incoming, updates, data, arrival, scanVars, setVars>>

\* A file of that name is removed if there is one.
RemoveOld ==
  /\ Step("remove")
  /\ data' = [data EXCEPT ![receiver.name] = "absent"]
  /\ receiver' = [receiver EXCEPT !.step = "create"]
  /\ UNCHANGED <<incoming, counterVars, arrival, scanVars, setVars>>

CreateFile ==
  /\ Step("create")
  /\ data' = [data EXCEPT ![receiver.name] = "empty"]
  /\ receiver' = [receiver EXCEPT !.step = "write"]
  /\ UNCHANGED <<incoming, counterVars, arrival, scanVars, setVars>>

\* The file is open: if the main loop unlinked it meanwhile, the CID is written
\* to a file without a name.
WriteFile ==
  /\ Step("write")
  /\ data' = [data EXCEPT ![receiver.name] = IF @ = "absent" THEN @ ELSE receiver.msg]
  /\ receiver' = IF set = "StrSet" THEN Waiting ELSE [receiver EXCEPT !.step = "stamp"]
  /\ UNCHANGED <<incoming, counterVars, arrival, scanVars, setVars>>

\* The file .ArrivalTime is created, unless one is there, and written.  No
\* CheckUpdate ever removes it.
CreateTime ==
  /\ Step("stamp")
  /\ arrival' = [arrival EXCEPT ![receiver.name] = IF @ = "absent" THEN "empty" ELSE @]
  /\ receiver' = [receiver EXCEPT !.step = "time"]
  /\ UNCHANGED <<incoming, counterVars, data, scanVars, setVars>>

WriteTime_Empty ==
  /\ Step("time")
  /\ receiver' = Waiting
  /\ UNCHANGED <<incoming, counterVars, data, arrival, scanVars, setVars>>

WriteTime ==
  /\ Step("time")
  /\ arrival' = [arrival EXCEPT ![receiver.name] = "written"]
  /\ receiver' = Waiting
  /\ UNCHANGED <<incoming, counterVars, data, scanVars, setVars>>

-----------------------------------------------------------------------------
\* The files with something in them.
Filled == {n \in Name : data[n] \notin {"absent", "empty"}}

\* CheckUpdate lists the folder, with the sizes of the files.
List ==
  /\ Running
  /\ set = "StrSet" => loaded["updater"] = {}
  /\ reading = NotReading /\ listed = {}
  /\ Filled # {}
  /\ listed' = Filled
  /\ UNCHANGED <<incoming, counterVars, receiver, data, arrival, reading, collected, setVars>>

\* The order of the names as strings: "10" comes before "9".
Key(n) == IF n < Base THEN n * (Base + 1) ELSE (n \div Base) * (Base + 1) + 1 + (n % Base)
Before(m, n) == Key(m) < Key(n)

NextListed_Any(n) == n \in listed

\* ReadDir sorts the names.  Where the order does not matter it is left open.
NextListed(n) ==
  /\ n \in listed
  /\ set = "StrSet" => \A m \in listed \ {n} : Before(n, m)

\* What follows when a file was read.  A file replaced since it was listed can
\* be empty, and then names no node: StrSet panics.
AfterOpen(content) ==
  CASE set = "2PSet" -> "check"
    [] set = "CLSet" -> "remove"
    [] set = "StrSet" /\ content # "empty" -> "get"
    [] OTHER -> "panic"

\* It opens and reads the next file; it panics if it cannot open it.
Open(n) ==
  /\ Running
  /\ reading = NotReading
  /\ NextListed(n)
  /\ listed' = listed \ {n}
  /\ reading' =
       IF data[n] = "absent" THEN [NotReading EXCEPT !.step = "panic"]
       ELSE [step |-> AfterOpen(data[n]), name |-> n, msg |-> data[n]]
  /\ UNCHANGED <<incoming, counterVars, receiver, data, arrival, collected, setVars>>

\* 2PSet leaves the file for the next turn until its time of arrival is there.
CheckTime ==
  /\ reading.step = "check"
  /\ reading' = IF arrival[reading.name] = "written" THEN [reading EXCEPT !.step = "remove"]
                                                     ELSE NotReading
  /\ UNCHANGED <<incoming, counterVars, receiver, data, arrival, listed, collected, setVars>>

Collected(m) == [c \in Message |-> IF c = m /\ collected[c] < 2 THEN collected[c] + 1 ELSE collected[c]]

RemoveFile_Keeps ==
  /\ reading.step = "remove"
  /\ reading' = IF ~Shared THEN NotReading ELSE [reading EXCEPT !.step = "time"]
  /\ collected' = Collected(reading.msg)
  /\ UNCHANGED <<incoming, counterVars, receiver, data, arrival, listed, setVars>>

\* StrSet retrieves the set, takes a name for it...
LoadSetName ==
  /\ reading.step = "get"
  /\ Load("updater")
  /\ reading' = [reading EXCEPT !.step = "count"]
  /\ UNCHANGED <<set, incoming, nextNodeName, updates, receiver, data, arrival, listed, collected, setVars>>

\* ... and replaces its own by it.
ReplaceSet ==
  /\ reading.step = "count"
  /\ Increment("updater")
  /\ reading' = [reading EXCEPT !.step = "remove"]
  /\ applied' = Append(applied, reading.msg)
  /\ UNCHANGED <<set, incoming, updates, receiver, data, arrival, listed, collected, given>>

\* The CID is collected and the file removed; it panics if the file is gone.
RemoveFile ==
  /\ reading.step = "remove"
  /\ data' = [data EXCEPT ![reading.name] = "absent"]
  /\ reading' = IF data[reading.name] = "absent" THEN [NotReading EXCEPT !.step = "panic"]
                ELSE IF set = "CLSet" THEN [reading EXCEPT !.step = "time"] ELSE NotReading
  /\ collected' = Collected(reading.msg)
  /\ UNCHANGED <<incoming, counterVars, receiver, arrival, listed, setVars>>

\* CLSet opens the file .ArrivalTime only now, and panics if it is not there.
OpenTime ==
  /\ reading.step = "time"
  /\ reading' = IF arrival[reading.name] = "absent" THEN [NotReading EXCEPT !.step = "panic"]
                                                    ELSE NotReading
  /\ UNCHANGED <<incoming, counterVars, receiver, data, arrival, listed, collected, setVars>>

Receiver == \/ \E m \in Message : Receive(m)
            \/ LoadName \/ CountName \/ RemoveOld \/ CreateFile \/ WriteFile
            \/ CreateTime \/ WriteTime

CheckUpdate == \/ List
               \/ \E n \in Name : Open(n)
               \/ CheckTime \/ LoadSetName \/ ReplaceSet \/ RemoveFile \/ OpenTime

Next == Receiver \/ CheckUpdate \/ StartUpdate \/ EndUpdate

Spec == Init /\ [][Next]_vars

\* The receiver loops on its subscription, and the main loop calls CheckUpdate
\* again and again.
FairSpec == Spec /\ WF_vars(Receiver) /\ WF_vars(CheckUpdate)

-----------------------------------------------------------------------------
(***************************************************************************)
(* Properties                                                              *)
(***************************************************************************)

\* No CID is handed to Merge twice, not even if names repeat and files are
\* replaced while they are read.
CollectedOnce == \A m \in Message : collected[m] <= 1

\* CRDTDag.go:676 "Write the received CID in a file": a CID handed over by
\* pubsub is with the receiver, in a file, being read, or collected; it is not
\* lost on the way.  For 2PSet: the shared counter of CLSet does lose some.
NothingLost ==
  Running /\ ~Shared =>
    \A m \in Message \ incoming :
      receiver.msg = m \/ (\E n \in Name : data[n] = m) \/ reading.msg = m \/ collected[m] > 0

\* Every CID that 2PSet received is collected in the end; in particular, no scan
\* panics because the receiver removes or has yet to create a file.
AllCollected ==
  ~Shared => \A m \in Message : (m \notin incoming) ~> (collected[m] > 0)

\* A received set replaces the local one of StrSet.  An older one replaces a newer
\* one only if their names are in the wrong order, because the counter got
\* another digit or went back, or if the newer one took a name that was taken
\* before (then a scan that had listed the name reads it before the older one,
\* written since to a file the scan has passed); and never because of the order
\* in which files of their own were written, listed and read.
AppliedInOrder ==
  \A k, l \in DOMAIN given :
    /\ k < l
    /\ Before(given[k].name, given[l].name)
    /\ \A j \in 1..(l - 1) : given[j].name # given[l].name
    => ~ \E i, j \in DOMAIN applied :
           i < j /\ applied[i] = given[l].msg /\ applied[j] = given[k].msg
=============================================================================
