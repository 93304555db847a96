------------------------- MODULE StorageFolderProofs -------------------------
(***************************************************************************)
(* Proofs about StorageFolder: for any messages and any value of the       *)
(* bounds, for the three sets at once.                                     *)
(***************************************************************************)
EXTENDS StorageFolder, TLAPS

\* The steps at which the receiver has a message and has yet to write it.
Early == {"count", "remove", "create", "write"}

\* The steps at which a set is about to replace the local one.
Replacing == {"get", "count"}

\* Nothing is done with an unknown message.
Messages ==
  /\ receiver.step # "waiting" => receiver.msg \in Message
  /\ reading.step \in Replacing => reading.msg \in Message

\* A message that is in no file, was not read and was not collected.
Fresh(m) ==
  /\ \A n \in Name : data[n] # m
  /\ reading.msg # m
  /\ collected[m] = 0

\* A message is in one place only: it arrives, is written to one file, is read
\* from it, and is collected when the file is removed.
OnePlace == \A m \in Message :
  /\ m \in incoming \/ (receiver.msg = m /\ receiver.step \in Early) => Fresh(m)
  /\ receiver.msg = m => m \notin incoming
  /\ \A n \in Name : data[n] = m => collected[m] = 0 /\ \A k \in Name : data[k] = m => k = n
  /\ reading.msg = m /\ reading.step \in {"check", "remove"} \cup Replacing =>
       collected[m] = 0 /\ \A n \in Name : data[n] = m => n = reading.name

\* 2PSet: every name is new, the scan reads what it listed, and a message is
\* with the receiver, in a file, or collected.
EveryNameNew ==
  /\ \A n \in Name : n >= nextNodeName["receiver"] => data[n] = "absent"
  /\ loaded["receiver"] \subseteq {nextNodeName["receiver"]}
  /\ receiver.step = "count" => receiver.name = nextNodeName["receiver"]
  /\ receiver.step \in {"remove", "create"} => /\ receiver.name < nextNodeName["receiver"]
                                               /\ data[receiver.name] = "absent"
  /\ receiver.step = "write" => data[receiver.name] = "empty"
ScanFindsFiles ==
  /\ \A n \in listed : data[n] \in Message
  /\ reading.step \in {"idle", "check", "remove"}
  /\ reading.step # "idle" => /\ reading.msg \in Message
                              /\ data[reading.name] = reading.msg
                              /\ reading.name \notin listed
Kept == \A m \in Message \ incoming :
  \/ receiver.msg = m /\ receiver.step \in Early
  \/ \E n \in Name : data[n] = m
  \/ collected[m] > 0

\* StrSet: how many of the messages given have been written.
Written == IF receiver.step = "waiting" THEN Len(given) ELSE Len(given) - 1
InOrderOfArrival ==
  /\ \A i, j \in DOMAIN given : given[i].msg = given[j].msg => i = j
  /\ \A j \in DOMAIN given : given[j].msg \notin incoming
  /\ receiver.step # "waiting" => /\ Len(given) > 0
                                  /\ given[Len(given)].msg = receiver.msg
                                  /\ given[Len(given)].name = receiver.name
  /\ receiver.step \in {"waiting"} \cup Early
  /\ \A n \in Name : data[n] \in Message =>
       \E j \in 1..Written : given[j].msg = data[n] /\ given[j].name = n
  /\ \A n \in listed : \E j \in 1..Written : given[j].name = n
  /\ reading.step \in Replacing => \E j \in 1..Written : given[j].msg = reading.msg
  /\ \A i \in DOMAIN applied : \E j \in 1..Written : given[j].msg = applied[i]

\* A message that may still replace the set.
Pending(m) ==
  \/ \E n \in Name : data[n] = m
  \/ reading.msg = m /\ reading.step \in Replacing

\* The message k came before l, its name comes before l's, which is new.
Ordered(k, l) ==
  /\ k < l
  /\ Before(given[k].name, given[l].name)
  /\ \A j \in 1..(l - 1) : given[j].name # given[l].name

\* When the newer one is listed so is the older one, unless it is being read;
\* when the newer one was read the older one is gone.
OlderFirst == \A k, l \in DOMAIN given : Ordered(k, l) =>
  /\ /\ given[l].name \in listed
     /\ data[given[l].name] = given[l].msg
     /\ data[given[k].name] = given[k].msg
     => \/ given[k].name \in listed
        \/ /\ reading.name = given[k].name /\ reading.msg = given[k].msg
           /\ reading.step \in {"remove"} \cup Replacing
  /\ \/ reading.msg = given[l].msg /\ reading.step \in Replacing
     \/ \E i \in DOMAIN applied : applied[i] = given[l].msg
     => ~Pending(given[k].msg)

FolderInv ==
  /\ TypeOK /\ Messages /\ OnePlace /\ CollectedOnce
  /\ set = "2PSet" => EveryNameNew /\ ScanFindsFiles /\ Kept
  /\ IF set = "StrSet" THEN InOrderOfArrival /\ OlderFirst /\ AppliedInOrder ELSE given = <<>>

-----------------------------------------------------------------------------
(* Types.                                                                  *)

LEMMA Constants ==
  /\ MaxName \in Nat /\ MaxUpdates \in Nat /\ Base \in Nat /\ Base > 1
  /\ Name \subseteq Nat /\ 0 \in Name
  /\ None \notin Message /\ "absent" \notin Message /\ "empty" \notin Message
BY BoundAssumption, BaseAssumption, NoneAssumption DEF Name

LEMMA CounterOfThread ==
  \A t : Counter(t) \in {"receiver", "updater"}
BY DEF Counter

LEMMA InitFolder == Init => FolderInv
<1> SUFFICES ASSUME Init PROVE FolderInv
  OBVIOUS
<1> USE Constants
<1>1. TypeOK
  <2>1. receiver = Waiting /\ reading = NotReading
    BY DEF Init
  <2>2. nextNodeName \in [{"receiver", "updater"} -> 0..(MaxName + 1)]
    BY DEF Init
  <2>3. given = <<>> /\ applied = <<>>
    BY DEF Init
  <2>4. /\ set \in Set /\ incoming \in SUBSET Message
        /\ loaded \in [Thread -> SUBSET Name] /\ updates \in 0..MaxUpdates
        /\ data \in [Name -> {"absent", "empty"} \cup Message]
        /\ arrival \in [Name -> {"absent", "empty", "written"}]
        /\ listed \in SUBSET Name /\ collected \in [Message -> 0..2]
    BY DEF Init
  <2>5. QED BY <2>1, <2>2, <2>3, <2>4 DEF TypeOK, Waiting, NotReading
<1>2. Messages /\ CollectedOnce
  BY DEF Init, Messages, CollectedOnce, Waiting, NotReading, Replacing
<1>3. OnePlace
  BY DEF Init, OnePlace, Fresh, Waiting, NotReading, Early, Replacing
<1>4. EveryNameNew /\ ScanFindsFiles /\ Kept
  BY DEF Init, EveryNameNew, ScanFindsFiles, Kept, Waiting, NotReading, Early
<1>5. given = <<>> /\ InOrderOfArrival /\ OlderFirst /\ AppliedInOrder
  BY DEF Init, InOrderOfArrival, OlderFirst, AppliedInOrder, Waiting, NotReading, Early,
         Replacing
<1>6. QED BY <1>1, <1>2, <1>3, <1>4, <1>5 DEF FolderInv

LEMMA LoadTypes ==
  ASSUME TypeOK, NEW t \in Thread, Load(t)
  PROVE  loaded' \in [Thread -> SUBSET Name]
BY Constants, CounterOfThread DEF TypeOK, Load, Thread, Name

LEMMA IncrementTypes ==
  ASSUME TypeOK, NEW t \in Thread, Increment(t)
  PROVE  /\ loaded' \in [Thread -> SUBSET Name]
         /\ nextNodeName' \in [{"receiver", "updater"} -> 0..(MaxName + 1)]
<1>1. loaded' \in [Thread -> SUBSET Name]
  BY DEF TypeOK, Increment
<1>2. PICK n \in loaded[t] : nextNodeName' = [nextNodeName EXCEPT ![Counter(t)] = n + 1]
  BY DEF Increment
<1>3. n + 1 \in 0..(MaxName + 1)
  BY Constants DEF TypeOK, Name
<1>4. QED BY <1>1, <1>2, <1>3, CounterOfThread DEF TypeOK

LEMMA TypesKept ==
  ASSUME TypeOK, Messages, [Next]_vars
  PROVE  TypeOK' /\ Messages'
<1> USE Constants, CounterOfThread
<1>1. ASSUME NEW m \in Message, Receive(m) PROVE TypeOK' /\ Messages'
  <2>1. nextNodeName["receiver"] \in Name
    BY <1>1 DEF Receive, TypeOK, Name
  <2>2. /\ receiver' = [step |-> "count", msg |-> m, name |-> nextNodeName["receiver"]]
        /\ UNCHANGED <<set, nextNodeName, loaded, updates, data, arrival, listed, reading,
                       collected, applied>>
        /\ incoming' \in SUBSET Message
    BY <1>1 DEF Receive, TypeOK, counterVars, scanVars
  <2>3. given' \in Seq([msg : Message, name : Name])
    BY <1>1, <2>1 DEF Receive, TypeOK
  <2>4. QED BY <2>1, <2>2, <2>3 DEF TypeOK, Messages
<1>2. CASE LoadName
  BY <1>2 DEF LoadName, Load, Step, TypeOK, Messages, scanVars, setVars, Thread, Name
<1>3. CASE CountName
  BY <1>3, IncrementTypes DEF CountName, Step, TypeOK, Messages, scanVars, setVars, Thread
<1>4. CASE RemoveOld
  BY <1>4 DEF RemoveOld, Step, TypeOK, Messages, counterVars, scanVars, setVars
<1>5. CASE CreateFile
  BY <1>5 DEF CreateFile, Step, TypeOK, Messages, counterVars, scanVars, setVars
<1>6. CASE WriteFile
  BY <1>6 DEF WriteFile, Step, TypeOK, Messages, counterVars, scanVars, setVars, Waiting
<1>7. CASE CreateTime
  BY <1>7 DEF CreateTime, Step, TypeOK, Messages, counterVars, scanVars, setVars
<1>8. CASE WriteTime
  BY <1>8 DEF WriteTime, Step, TypeOK, Messages, counterVars, scanVars, setVars, Waiting
<1>9. CASE List
  BY <1>9 DEF List, Filled, TypeOK, Messages, counterVars, setVars
<1>10. ASSUME NEW n \in Name, Open(n) PROVE TypeOK' /\ Messages'
  BY <1>10 DEF Open, AfterOpen, TypeOK, Messages, counterVars, setVars, NotReading, Replacing
<1>11. CASE CheckTime
  BY <1>11 DEF CheckTime, TypeOK, Messages, counterVars, setVars, NotReading, Replacing
<1>12. CASE LoadSetName
  BY <1>12, LoadTypes DEF LoadSetName, TypeOK, Messages, setVars, Thread, Replacing
<1>13. CASE ReplaceSet
  <2>1. applied' \in Seq(Message)
    BY <1>13 DEF ReplaceSet, TypeOK, Messages, Replacing
  <2>2. reading' \in [step : {"remove"}, name : Name, msg : Message]
    BY <1>13 DEF ReplaceSet, TypeOK, Messages, Replacing
  <2>3. /\ loaded' \in [Thread -> SUBSET Name]
        /\ nextNodeName' \in [{"receiver", "updater"} -> 0..(MaxName + 1)]
    BY <1>13, IncrementTypes DEF ReplaceSet, Thread
  <2>4. UNCHANGED <<set, incoming, updates, receiver, data, arrival, listed, collected, given>>
    BY <1>13 DEF ReplaceSet
  <2>5. TypeOK'
    BY <2>1, <2>2, <2>3, <2>4 DEF TypeOK
  <2>6. QED BY <2>2, <2>4, <2>5 DEF Messages, Replacing
<1>14. CASE RemoveFile
  <2>1. collected' \in [Message -> 0..2]
    BY <1>14 DEF RemoveFile, Collected, TypeOK
  <2>2. QED
    BY <1>14, <2>1 DEF RemoveFile, TypeOK, Messages, counterVars, setVars, NotReading, Replacing
<1>15. CASE OpenTime
  BY <1>15 DEF OpenTime, TypeOK, Messages, counterVars, setVars, NotReading, Replacing
<1>16. CASE StartUpdate
  BY <1>16 DEF StartUpdate, Load, TypeOK, Messages, scanVars, setVars, Thread, Name
<1>17. CASE EndUpdate
  BY <1>17 DEF EndUpdate, Increment, TypeOK, Messages, scanVars, setVars, Thread, Name
<1>18. CASE UNCHANGED vars
  BY <1>18 DEF vars, TypeOK, Messages
<1>19. QED
  BY <1>1, <1>2, <1>3, <1>4, <1>5, <1>6, <1>7, <1>8, <1>9, <1>10, <1>11, <1>12, <1>13,
     <1>14, <1>15, <1>16, <1>17, <1>18 DEF Next, Receiver, CheckUpdate

-----------------------------------------------------------------------------
(* Every message in one place: for the three sets.                         *)

\* What a collection counts.
LEMMA CollectedOf ==
  ASSUME TypeOK, RemoveFile, NEW m \in Message
  PROVE  /\ collected[m] \in 0..2
         /\ m # reading.msg => collected'[m] = collected[m]
         /\ m = reading.msg => collected'[m] > 0 /\ collected'[m] <= collected[m] + 1
BY DEF RemoveFile, Collected, TypeOK

LEMMA CollectedOnceKept ==
  ASSUME TypeOK, OnePlace, CollectedOnce, [Next]_vars
  PROVE  CollectedOnce'
<1>1. CASE RemoveFile
  <2> SUFFICES ASSUME NEW m \in Message PROVE collected'[m] <= 1
    BY DEF CollectedOnce
  <2>1. CASE m = reading.msg
    <3>1. collected[m] = 0
      BY <1>1, <2>1 DEF OnePlace, RemoveFile
    <3>2. QED BY <1>1, <2>1, <3>1, CollectedOf
  <2>2. CASE m # reading.msg
    BY <1>1, <2>2, CollectedOf DEF CollectedOnce
  <2>3. QED BY <2>1, <2>2
<1>2. CASE ~RemoveFile
  <2>1. collected' = collected
    BY <1>2 DEF Next, vars, Receiver, CheckUpdate, Receive, LoadName, CountName, RemoveOld,
       CreateFile, WriteFile, CreateTime, WriteTime, List, Open, CheckTime, LoadSetName,
       ReplaceSet, OpenTime, StartUpdate, EndUpdate, scanVars
  <2>2. QED BY <2>1 DEF CollectedOnce
<1>3. QED BY <1>1, <1>2

LEMMA OnePlaceKept ==
  ASSUME TypeOK, Messages, OnePlace, [Next]_vars
  PROVE  OnePlace'
<1> USE Constants
<1>1. ASSUME NEW m \in Message, Receive(m) PROVE OnePlace'
  BY <1>1 DEF Receive, Step, TypeOK, OnePlace, Fresh, counterVars, scanVars, Early
<1>2. CASE LoadName
  BY <1>2 DEF LoadName, OnePlace, Fresh, scanVars
<1>3. CASE CountName
  BY <1>3 DEF CountName, Step, TypeOK, OnePlace, Fresh, scanVars, Early
<1>4. CASE RemoveOld
  BY <1>4 DEF RemoveOld, Step, TypeOK, OnePlace, Fresh, scanVars, Early
<1>5. CASE CreateFile
  BY <1>5 DEF CreateFile, Step, TypeOK, OnePlace, Fresh, scanVars, Early
<1>6. CASE WriteFile
  BY <1>6 DEF WriteFile, Step, TypeOK, Messages, OnePlace, Fresh, scanVars, Early, Waiting
<1>7. CASE CreateTime
  BY <1>7 DEF CreateTime, Step, TypeOK, OnePlace, Fresh, scanVars, Early
<1>8. CASE WriteTime
  BY <1>8 DEF WriteTime, Step, TypeOK, OnePlace, Fresh, scanVars, Early, Waiting
<1>9. CASE List
  BY <1>9 DEF List, OnePlace, Fresh
<1>10. ASSUME NEW n \in Name, Open(n) PROVE OnePlace'
  BY <1>10 DEF Open, TypeOK, OnePlace, Fresh, NotReading, Replacing
<1>11. CASE CheckTime
  BY <1>11 DEF CheckTime, TypeOK, OnePlace, Fresh, NotReading, Replacing
<1>12. CASE LoadSetName
  BY <1>12 DEF LoadSetName, TypeOK, OnePlace, Fresh, Replacing
<1>13. CASE ReplaceSet
  BY <1>13 DEF ReplaceSet, TypeOK, OnePlace, Fresh, Replacing
<1>14. CASE RemoveFile
  <2>1. \A m \in Message : m # reading.msg => collected'[m] = collected[m]
    BY <1>14, CollectedOf
  <2>2. /\ \A n \in Name : data'[n] = IF n = reading.name THEN "absent" ELSE data[n]
        /\ UNCHANGED <<incoming, receiver>>
        /\ reading'.step \in {"panic", "time", "idle"}
        /\ reading'.msg \in {None, reading.msg}
    BY <1>14 DEF RemoveFile, TypeOK, NotReading
  <2>3. reading.step = "remove"
    BY <1>14 DEF RemoveFile
  <2>4. QED BY <2>1, <2>2, <2>3 DEF OnePlace, Fresh, Replacing
<1>15. CASE OpenTime
  BY <1>15 DEF OpenTime, TypeOK, OnePlace, Fresh, NotReading, Replacing
<1>16. CASE StartUpdate
  BY <1>16 DEF StartUpdate, OnePlace, Fresh, scanVars
<1>17. CASE EndUpdate
  BY <1>17 DEF EndUpdate, OnePlace, Fresh, scanVars
<1>18. CASE UNCHANGED vars
  BY <1>18 DEF vars, OnePlace, Fresh
<1>19. QED
  BY <1>1, <1>2, <1>3, <1>4, <1>5, <1>6, <1>7, <1>8, <1>9, <1>10, <1>11, <1>12, <1>13,
     <1>14, <1>15, <1>16, <1>17, <1>18 DEF Next, Receiver, CheckUpdate

-----------------------------------------------------------------------------
(* 2PSet: the receiver has a counter of its own.                           *)

LEMMA OwnCounterKept ==
  ASSUME TypeOK, Messages, set = "2PSet", EveryNameNew, ScanFindsFiles, [Next]_vars
  PROVE  set' = "2PSet" /\ EveryNameNew' /\ ScanFindsFiles'
<1> USE Constants
<1>0. Counter("receiver") = "receiver" /\ Counter("updater") = "updater" /\ ~Shared
  BY DEF Counter, Shared
<1>a. nextNodeName["receiver"] \in Nat
  BY DEF TypeOK
<1>b. set' = set
  BY DEF Next, vars, Receiver, CheckUpdate, Receive, LoadName, CountName, RemoveOld,
     CreateFile, WriteFile, CreateTime, WriteTime, List, Open, CheckTime, LoadSetName,
     ReplaceSet, RemoveFile, OpenTime, StartUpdate, EndUpdate, counterVars
<1> SUFFICES EveryNameNew' /\ ScanFindsFiles'
  BY <1>b
<1>1. ASSUME NEW m \in Message, Receive(m) PROVE EveryNameNew' /\ ScanFindsFiles'
  BY <1>1 DEF Receive, EveryNameNew, ScanFindsFiles, counterVars, scanVars
<1>2. CASE LoadName
  BY <1>0, <1>2 DEF LoadName, Load, Step, TypeOK, EveryNameNew, ScanFindsFiles, scanVars, Thread
<1>3. CASE CountName
  <2>1. PICK n \in loaded["receiver"] :
          nextNodeName' = [nextNodeName EXCEPT !["receiver"] = n + 1]
    BY <1>0, <1>3 DEF CountName, Increment
  <2>2. n = nextNodeName["receiver"] /\ nextNodeName'["receiver"] = n + 1
    BY <2>1 DEF EveryNameNew, TypeOK
  <2>3. /\ loaded'["receiver"] = {}
        /\ receiver.step = "count" /\ receiver' = [receiver EXCEPT !.step = "remove"]
        /\ UNCHANGED <<data, listed, reading>>
    BY <1>3 DEF CountName, Increment, Step, TypeOK, Thread, scanVars
  <2>4. receiver'.step = "remove" /\ receiver'.name = n /\ n \in Name
    BY <2>2, <2>3 DEF EveryNameNew, TypeOK
  <2>5. QED BY <1>a, <2>2, <2>3, <2>4 DEF EveryNameNew, ScanFindsFiles
<1>4. CASE RemoveOld
  BY <1>4 DEF RemoveOld, Step, TypeOK, EveryNameNew, ScanFindsFiles, counterVars, scanVars
<1>5. CASE CreateFile
  BY <1>5 DEF CreateFile, Step, TypeOK, EveryNameNew, ScanFindsFiles, counterVars, scanVars
<1>6. CASE WriteFile
  BY <1>6 DEF WriteFile, Step, TypeOK, Messages, EveryNameNew, ScanFindsFiles, counterVars, scanVars, Waiting
<1>7. CASE CreateTime
  BY <1>7 DEF CreateTime, Step, TypeOK, EveryNameNew, ScanFindsFiles, counterVars, scanVars
<1>8. CASE WriteTime
  BY <1>8 DEF WriteTime, Step, TypeOK, EveryNameNew, ScanFindsFiles, counterVars, scanVars, Waiting
<1>9. CASE List
  <2>1. \A n \in Filled : data[n] \in Message
    BY DEF Filled, TypeOK
  <2>2. /\ listed' = Filled /\ reading = NotReading
        /\ UNCHANGED <<nextNodeName, loaded, receiver, data, reading>>
    BY <1>9 DEF List, counterVars
  <2>3. QED BY <2>1, <2>2 DEF EveryNameNew, ScanFindsFiles, NotReading
<1>10. ASSUME NEW n \in Name, Open(n) PROVE EveryNameNew' /\ ScanFindsFiles'
  BY <1>10 DEF Open, NextListed, AfterOpen, TypeOK, EveryNameNew, ScanFindsFiles, counterVars, NotReading
<1>11. CASE CheckTime
  BY <1>11 DEF CheckTime, TypeOK, EveryNameNew, ScanFindsFiles, counterVars, NotReading
<1>12. CASE LoadSetName
  BY <1>12 DEF LoadSetName, ScanFindsFiles
<1>13. CASE ReplaceSet
  BY <1>13 DEF ReplaceSet, ScanFindsFiles
<1>14. CASE RemoveFile
  BY <1>14 DEF RemoveFile, TypeOK, EveryNameNew, ScanFindsFiles, counterVars, NotReading
<1>15. CASE OpenTime
  BY <1>15 DEF OpenTime, ScanFindsFiles
<1>16. CASE StartUpdate
  BY <1>0, <1>16 DEF StartUpdate, Load, TypeOK, EveryNameNew, ScanFindsFiles, scanVars, Thread
<1>17. CASE EndUpdate
  BY <1>0, <1>17 DEF EndUpdate, Increment, TypeOK, EveryNameNew, ScanFindsFiles, scanVars, Thread
<1>18. CASE UNCHANGED vars
  BY <1>18 DEF vars, EveryNameNew, ScanFindsFiles
<1>19. QED
  BY <1>1, <1>2, <1>3, <1>4, <1>5, <1>6, <1>7, <1>8, <1>9, <1>10, <1>11, <1>12, <1>13,
     <1>14, <1>15, <1>16, <1>17, <1>18 DEF Next, Receiver, CheckUpdate

LEMMA KeptOnTheWay ==
  ASSUME TypeOK, Messages, set = "2PSet", EveryNameNew, ScanFindsFiles, Kept, [Next]_vars
  PROVE  Kept'
<1> USE Constants
<1>1. ASSUME NEW m \in Message, Receive(m) PROVE Kept'
  BY <1>1 DEF Receive, Step, Kept, Early, scanVars
<1>2. CASE RemoveOld \/ CreateFile
  <2>1. data[receiver.name] = "absent"
    BY <1>2 DEF RemoveOld, CreateFile, Step, EveryNameNew
  <2>2. /\ \A n \in Name : data[n] \in Message => data'[n] = data[n]
        /\ receiver.step \in Early => receiver'.step \in Early
        /\ receiver'.msg = receiver.msg
        /\ UNCHANGED <<incoming, collected>>
    BY <1>2, <2>1 DEF RemoveOld, CreateFile, Step, TypeOK, scanVars, Early
  <2>3. QED BY <2>2 DEF Kept
<1>3. CASE WriteFile
  <2>1. /\ data' = [data EXCEPT ![receiver.name] = receiver.msg]
        /\ receiver.name \in Name /\ data[receiver.name] \notin Message
        /\ UNCHANGED <<incoming, collected>>
    BY <1>3 DEF WriteFile, Step, EveryNameNew, TypeOK, scanVars
  <2>2. data'[receiver.name] = receiver.msg
        /\ \A n \in Name : data[n] \in Message => data'[n] = data[n]
    BY <2>1 DEF TypeOK
  <2>3. QED BY <2>1, <2>2 DEF Kept
<1>4. CASE RemoveFile
  <2>1. /\ \A n \in Name : n # reading.name => data'[n] = data[n]
        /\ UNCHANGED <<incoming, receiver>>
    BY <1>4 DEF RemoveFile, TypeOK
  <2>2. reading.step = "remove" /\ data[reading.name] = reading.msg
    BY <1>4 DEF RemoveFile, ScanFindsFiles
  <2>3. \A m \in Message : collected[m] > 0 \/ m = reading.msg => collected'[m] > 0
    BY <1>4, CollectedOf
  <2>4. QED BY <2>1, <2>2, <2>3 DEF Kept
<1>5. CASE LoadName \/ CountName \/ CreateTime \/ WriteTime
  BY <1>5 DEF LoadName, CountName, CreateTime, WriteTime, Step, TypeOK, Kept, Early, scanVars
<1>6. CASE \/ List \/ (\E n \in Name : Open(n)) \/ CheckTime \/ LoadSetName \/ ReplaceSet
           \/ OpenTime \/ StartUpdate \/ EndUpdate \/ UNCHANGED vars
  <2>1. UNCHANGED <<incoming, receiver, data, collected>>
    BY <1>6 DEF List, Open, CheckTime, LoadSetName, ReplaceSet, OpenTime, StartUpdate,
       EndUpdate, vars, scanVars
  <2>2. QED BY <2>1 DEF Kept
<1>7. QED
  BY <1>1, <1>2, <1>3, <1>4, <1>5, <1>6 DEF Next, Receiver, CheckUpdate

-----------------------------------------------------------------------------
(* StrSet: the order of arrival.                                           *)

LEMMA GivenFacts ==
  ASSUME TypeOK
  PROVE  /\ Len(given) \in Nat /\ DOMAIN given = 1..Len(given)
         /\ \A j \in DOMAIN given : given[j].msg \in Message /\ given[j].name \in Name
         /\ Len(applied) \in Nat /\ DOMAIN applied = 1..Len(applied)
         /\ \A i \in DOMAIN applied : applied[i] \in Message
<1> DEFINE Given == [msg : Message, name : Name]
<1>1. given \in Seq(Given) /\ applied \in Seq(Message)
  BY DEF TypeOK
<1> HIDE DEF Given
<1>2. \A j \in DOMAIN given : given[j] \in Given
  BY <1>1
<1>3. \A i \in DOMAIN applied : applied[i] \in Message
  BY <1>1
<1>4. Len(given) \in Nat /\ DOMAIN given = 1..Len(given)
  BY <1>1
<1>5. Len(applied) \in Nat /\ DOMAIN applied = 1..Len(applied)
  BY <1>1
<1>6. QED BY <1>2, <1>3, <1>4, <1>5 DEF Given

\* The receiver has a message that was given, the last one, until it wrote it.
LEMMA WrittenFacts ==
  ASSUME TypeOK, InOrderOfArrival
  PROVE  /\ Written \in Nat /\ Written <= Len(given)
         /\ receiver.step = "waiting" => Written = Len(given)
         /\ receiver.step # "waiting" => Len(given) = Written + 1
<1>1. Len(given) \in Nat
  BY GivenFacts
<1>2. receiver.step # "waiting" => Len(given) > 0
  BY DEF InOrderOfArrival
<1>3. QED BY <1>1, <1>2 DEF Written

LEMMA BeforeIsStrict ==
  ASSUME NEW m \in Name, NEW n \in Name, Before(m, n)
  PROVE  m # n /\ ~Before(n, m)
<1>1. \A k \in Name : Key(k) \in Nat
  BY Constants DEF Key
<1>2. Key(m) < Key(n)
  BY DEF Before
<1>3. QED BY <1>1, <1>2 DEF Before

LEMMA SetKept == [Next]_vars => set' = set
BY DEF Next, vars, Receiver, CheckUpdate, Receive, LoadName, CountName, RemoveOld,
   CreateFile, WriteFile, CreateTime, WriteTime, List, Open, CheckTime, LoadSetName,
   ReplaceSet, RemoveFile, OpenTime, StartUpdate, EndUpdate, counterVars

\* The steps of CheckUpdate that neither list, open nor apply a file: a file
\* only goes away, and nothing starts to be applied.
LEMMA ReadStepFacts ==
  ASSUME TypeOK, CheckTime \/ LoadSetName \/ RemoveFile \/ OpenTime
  PROVE  /\ UNCHANGED <<incoming, given, receiver, listed, applied>>
         /\ \A n \in Name : data'[n] \in Message => data'[n] = data[n]
         /\ reading'.step \in Replacing =>
              reading.step \in Replacing /\ reading'.msg = reading.msg
         /\ \/ reading.step \notin {"remove"} \cup Replacing
            \/ data'[reading.name] = "absent"
            \/ /\ reading'.step \in Replacing /\ reading'.name = reading.name
               /\ reading'.msg = reading.msg
<1>1. /\ data \in [Name -> {"absent", "empty"} \cup Message]
      /\ reading \in [step : {"idle", "check", "get", "count", "remove", "time", "panic"},
                      name : Name, msg : {None, "empty"} \cup Message]
  BY DEF TypeOK
<1>2. CASE CheckTime
  <2>1. /\ UNCHANGED <<incoming, given, receiver, listed, applied, data>>
        /\ reading.step = "check"
        /\ reading' = IF arrival[reading.name] = "written"
                      THEN [reading EXCEPT !.step = "remove"] ELSE NotReading
    BY <1>2 DEF CheckTime, setVars
  <2>2. reading'.step \in {"remove", "idle"}
    BY <1>1, <2>1 DEF NotReading
  <2>3. QED BY <2>1, <2>2 DEF Replacing
<1>3. CASE LoadSetName
  <2>1. /\ UNCHANGED <<incoming, given, receiver, listed, applied, data>>
        /\ reading.step = "get"
        /\ reading' = [reading EXCEPT !.step = "count"]
    BY <1>3 DEF LoadSetName, setVars
  <2>2. /\ reading'.step = "count" /\ reading'.name = reading.name
        /\ reading'.msg = reading.msg
    BY <1>1, <2>1
  <2>3. QED BY <2>1, <2>2 DEF Replacing
<1>4. CASE RemoveFile
  <2>1. /\ UNCHANGED <<incoming, given, receiver, listed, applied>>
        /\ data' = [data EXCEPT ![reading.name] = "absent"]
        /\ reading' = IF data[reading.name] = "absent" THEN [NotReading EXCEPT !.step = "panic"]
                      ELSE IF set = "CLSet" THEN [reading EXCEPT !.step = "time"]
                      ELSE NotReading
    BY <1>4 DEF RemoveFile, setVars
  <2>2. reading'.step \in {"panic", "time", "idle"}
    BY <1>1, <2>1 DEF NotReading
  <2>3. data'[reading.name] = "absent"
    BY <1>1, <2>1
  <2>4. \A n \in Name : data'[n] \in Message => data'[n] = data[n]
    BY <1>1, <2>1, Constants
  <2>5. QED BY <2>1, <2>2, <2>3, <2>4 DEF Replacing
<1>5. CASE OpenTime
  <2>1. /\ UNCHANGED <<incoming, given, receiver, listed, applied, data>>
        /\ reading.step = "time"
        /\ reading' = IF arrival[reading.name] = "absent"
                      THEN [NotReading EXCEPT !.step = "panic"] ELSE NotReading
    BY <1>5 DEF OpenTime, setVars
  <2>2. reading'.step \in {"panic", "idle"}
    BY <2>1 DEF NotReading
  <2>3. QED BY <2>1, <2>2 DEF Replacing
<1>6. QED BY <1>2, <1>3, <1>4, <1>5

LEMMA ArrivalKept ==
  ASSUME TypeOK, TypeOK', Messages, OnePlace, set = "StrSet", InOrderOfArrival, [Next]_vars
  PROVE  InOrderOfArrival'
<1> USE Constants, GivenFacts
<1>1. ASSUME NEW m \in Message, Receive(m) PROVE InOrderOfArrival'
  <2> DEFINE L == Len(given)
             g == [msg |-> m, name |-> nextNodeName["receiver"]]
  <2>1. /\ given' = Append(given, g)
        /\ receiver' = [step |-> "count", msg |-> m, name |-> nextNodeName["receiver"]]
        /\ m \in incoming /\ incoming' = incoming \ {m}
        /\ receiver.step = "waiting"
        /\ UNCHANGED <<data, listed, reading, applied>>
    BY <1>1 DEF Receive, Step, counterVars, scanVars
  <2>2. /\ Len(given') = L + 1 /\ DOMAIN given' = 1..(L + 1) /\ given'[L + 1] = g
        /\ \A j \in 1..L : given'[j] = given[j]
    BY <2>1 DEF TypeOK
  <2>3. Written = L /\ Written' = L
    BY <2>1, <2>2 DEF Written
  <2>4. /\ \A i, j \in DOMAIN given' : given'[i].msg = given'[j].msg => i = j
        /\ \A j \in DOMAIN given' : given'[j].msg \notin incoming'
    <3>1. \A j \in 1..L : given[j].msg \notin incoming
      BY DEF InOrderOfArrival
    <3>2. \A j \in 1..L : given'[j].msg # m
      BY <2>1, <2>2, <3>1
    <3>3. \A i, j \in 1..L : given'[i].msg = given'[j].msg => i = j
      BY <2>2 DEF InOrderOfArrival
    <3>4. given'[L + 1].msg = m
      BY <2>2
    <3>5. \A j \in 1..L : given'[j].msg \notin incoming'
      BY <2>1, <2>2, <3>1
    <3>6. \A j \in DOMAIN given' : j \in 1..L \/ j = L + 1
      BY <2>2
    <3>7. QED BY <2>1, <3>2, <3>3, <3>4, <3>5, <3>6
  <2>5. receiver'.step # "waiting" =>
          /\ Len(given') > 0
          /\ given'[Len(given')].msg = receiver'.msg
          /\ given'[Len(given')].name = receiver'.name
    BY <2>1, <2>2
  <2>6. receiver'.step \in {"waiting"} \cup Early
    BY <2>1 DEF Early
  <2>7. /\ \A n \in Name : data'[n] \in Message =>
             \E j \in 1..L : given'[j].msg = data'[n] /\ given'[j].name = n
        /\ \A n \in listed' : \E j \in 1..L : given'[j].name = n
        /\ reading'.step \in Replacing => \E j \in 1..L : given'[j].msg = reading'.msg
        /\ \A i \in DOMAIN applied' : \E j \in 1..L : given'[j].msg = applied'[i]
    <3>1. \A n \in Name : data[n] \in Message =>
            \E j \in 1..L : given[j].msg = data[n] /\ given[j].name = n
      BY <2>3 DEF InOrderOfArrival
    <3>2. \A n \in listed : \E j \in 1..L : given[j].name = n
      BY <2>3 DEF InOrderOfArrival
    <3>3. reading.step \in Replacing => \E j \in 1..L : given[j].msg = reading.msg
      BY <2>3 DEF InOrderOfArrival
    <3>4. \A i \in DOMAIN applied : \E j \in 1..L : given[j].msg = applied[i]
      BY <2>3 DEF InOrderOfArrival
    <3>5. QED BY <2>1, <2>2, <3>1, <3>2, <3>3, <3>4
  <2> HIDE DEF g, L
  <2>8. QED BY <2>3, <2>4, <2>5, <2>6, <2>7 DEF InOrderOfArrival
<1>2. CASE LoadName \/ CountName \/ RemoveOld \/ CreateFile
  <2>1. /\ UNCHANGED <<incoming, given, listed, reading, applied>>
        /\ receiver'.msg = receiver.msg /\ receiver'.name = receiver.name
        /\ receiver.step # "waiting" /\ receiver'.step \in Early
        /\ \A n \in Name : data'[n] \in Message => data'[n] = data[n]
    <3>1. CASE LoadName
      BY <1>2, <3>1 DEF LoadName, Step, scanVars, setVars, Early
    <3>2. CASE CountName
      BY <1>2, <3>2 DEF CountName, Step, TypeOK, scanVars, setVars, Early
    <3>3. CASE RemoveOld
      BY <1>2, <3>3 DEF RemoveOld, Step, TypeOK, scanVars, setVars, Early
    <3>4. CASE CreateFile
      BY <1>2, <3>4 DEF CreateFile, Step, TypeOK, scanVars, setVars, Early
    <3>5. QED BY <1>2, <3>1, <3>2, <3>3, <3>4
  <2>2. Written' = Written
    BY <2>1 DEF Written, Early
  <2>3. \A n \in Name : data'[n] \in Message =>
          \E j \in 1..Written : given[j].msg = data'[n] /\ given[j].name = n
    BY <2>1 DEF InOrderOfArrival
  <2>4. receiver'.step \in {"waiting"} \cup Early /\ Len(given) > 0
        /\ given[Len(given)].msg = receiver'.msg /\ given[Len(given)].name = receiver'.name
    BY <2>1 DEF InOrderOfArrival
  <2>5. QED BY <2>1, <2>2, <2>3, <2>4 DEF InOrderOfArrival
<1>3. CASE WriteFile
  <2>1. /\ UNCHANGED <<incoming, given, listed, reading, applied>>
        /\ receiver.step = "write" /\ receiver' = Waiting
        /\ \A n \in Name : data'[n] \in Message =>
             data'[n] = data[n] \/ (n = receiver.name /\ data'[n] = receiver.msg)
    BY <1>3 DEF WriteFile, Step, TypeOK, scanVars, setVars
  <2>2. Len(given) = Written + 1 /\ Written' = Len(given) /\ Written \in Nat
    BY <2>1, WrittenFacts DEF Written, Waiting
  <2>3. given[Written + 1].msg = receiver.msg /\ given[Written + 1].name = receiver.name
    BY <2>1, <2>2 DEF InOrderOfArrival
  <2>4. Written' = Written + 1 /\ \A j \in 1..Written : j \in 1..(Written + 1)
    BY <2>2
  <2>5. ASSUME NEW n \in Name, data'[n] \in Message
        PROVE  \E j \in 1..(Written + 1) : given[j].msg = data'[n] /\ given[j].name = n
    <3>1. CASE data'[n] = data[n]
      <4>1. PICK j \in 1..Written : given[j].msg = data[n] /\ given[j].name = n
        BY <2>5, <3>1 DEF InOrderOfArrival
      <4>2. QED BY <2>4, <3>1, <4>1
    <3>2. CASE n = receiver.name /\ data'[n] = receiver.msg
      BY <2>2, <2>3, <3>2
    <3>3. QED BY <2>1, <2>5, <3>1, <3>2
  <2>6. /\ \A n \in listed : \E j \in 1..(Written + 1) : given[j].name = n
        /\ reading.step \in Replacing => \E j \in 1..(Written + 1) : given[j].msg = reading.msg
        /\ \A i \in DOMAIN applied : \E j \in 1..(Written + 1) : given[j].msg = applied[i]
    BY <2>4 DEF InOrderOfArrival
  <2>7. receiver'.step = "waiting"
    BY <2>1 DEF Waiting
  <2>8. QED BY <2>1, <2>4, <2>5, <2>6, <2>7 DEF InOrderOfArrival
<1>4. CASE CreateTime \/ WriteTime
  BY <1>4 DEF CreateTime, WriteTime, Step, InOrderOfArrival, Early
<1>5. CASE List
  <2>1. /\ UNCHANGED <<incoming, given, receiver, data, reading, applied>>
        /\ \A n \in listed' : n \in Name /\ data[n] \in Message
    BY <1>5 DEF List, Filled, TypeOK, setVars
  <2>2. Written' = Written
    BY <2>1 DEF Written
  <2>3. \A n \in listed' : \E j \in 1..Written : given[j].name = n
    BY <2>1 DEF InOrderOfArrival
  <2>4. QED BY <2>1, <2>2, <2>3 DEF InOrderOfArrival
<1>6. ASSUME NEW n \in Name, Open(n) PROVE InOrderOfArrival'
  <2>1. /\ UNCHANGED <<incoming, given, receiver, data, applied>>
        /\ listed' \subseteq listed
        /\ reading'.step \in Replacing => reading'.msg = data[n] /\ data[n] \in Message
    BY <1>6 DEF Open, AfterOpen, TypeOK, NotReading, Replacing, setVars
  <2>2. Written' = Written
    BY <2>1 DEF Written
  <2>3. QED BY <2>1, <2>2 DEF InOrderOfArrival
<1>7. CASE CheckTime \/ LoadSetName \/ RemoveFile \/ OpenTime
  <2>1. /\ UNCHANGED <<incoming, given, receiver, listed, applied>>
        /\ \A n \in Name : data'[n] \in Message => data'[n] = data[n]
        /\ reading'.step \in Replacing => reading.step \in Replacing /\ reading'.msg = reading.msg
    BY <1>7, ReadStepFacts
  <2>2. Written' = Written
    BY <2>1 DEF Written
  <2>3. QED BY <2>1, <2>2 DEF InOrderOfArrival
<1>8. CASE ReplaceSet
  <2>1. /\ UNCHANGED <<incoming, given, receiver, listed, data>>
        /\ applied' = Append(applied, reading.msg)
        /\ reading.step \in Replacing /\ reading'.step \notin Replacing
    BY <1>8 DEF ReplaceSet, TypeOK, Replacing
  <2>2. Written' = Written
    BY <2>1 DEF Written
  <2>3. \A i \in DOMAIN applied' : (i \in DOMAIN applied /\ applied'[i] = applied[i])
                                   \/ applied'[i] = reading.msg
    BY <2>1 DEF TypeOK
  <2>4. \A i \in DOMAIN applied' : \E j \in 1..Written : given[j].msg = applied'[i]
    BY <2>1, <2>3 DEF InOrderOfArrival
  <2>5. QED BY <2>1, <2>2, <2>4 DEF InOrderOfArrival
<1>9. CASE StartUpdate \/ EndUpdate \/ UNCHANGED vars
  <2>1. UNCHANGED <<incoming, given, receiver, listed, data, reading, applied>>
    BY <1>9 DEF StartUpdate, EndUpdate, vars, scanVars, setVars
  <2>2. Written' = Written
    BY <2>1 DEF Written
  <2>3. QED BY <2>1, <2>2 DEF InOrderOfArrival
<1>10. QED
  BY <1>1, <1>2, <1>3, <1>4, <1>5, <1>6, <1>7, <1>8, <1>9 DEF Next, Receiver, CheckUpdate

\* Steps that hand over nothing leave the pairs in question as they are.
LEMMA OrderedSame ==
  ASSUME TypeOK, given' = given
  PROVE  \A k, l \in DOMAIN given : Ordered(k, l)' <=> Ordered(k, l)
BY DEF Ordered

LEMMA FilesOfGiven ==
  ASSUME TypeOK, InOrderOfArrival
  PROVE  \A n \in Name, k \in DOMAIN given : data[n] = given[k].msg => given[k].name = n
<1> SUFFICES ASSUME NEW n \in Name, NEW k \in DOMAIN given, data[n] = given[k].msg
             PROVE  given[k].name = n
  OBVIOUS
<1>1. data[n] \in Message
  BY GivenFacts
<1>2. PICK j \in 1..Written : given[j].msg = data[n] /\ given[j].name = n
  BY <1>1 DEF InOrderOfArrival
<1>3. j \in DOMAIN given
  BY GivenFacts, WrittenFacts
<1>4. j = k
  BY <1>2, <1>3 DEF InOrderOfArrival
<1>5. QED BY <1>2, <1>4

\* What a step that hands over nothing and sets nothing has to preserve.
LEMMA OrderKeptIf ==
  ASSUME TypeOK, OlderFirst, AppliedInOrder, given' = given, applied' = applied,
         \A k, l \in DOMAIN given :
           /\ Ordered(k, l)
           /\ given[l].name \in listed' /\ data'[given[l].name] = given[l].msg
           /\ data'[given[k].name] = given[k].msg
           => \/ given[k].name \in listed'
              \/ /\ reading'.name = given[k].name /\ reading'.msg = given[k].msg
                 /\ reading'.step \in {"remove"} \cup Replacing,
         \A k \in DOMAIN given : Pending(given[k].msg)' => Pending(given[k].msg),
         \A k, l \in DOMAIN given :
           /\ Ordered(k, l) /\ reading'.msg = given[l].msg /\ reading'.step \in Replacing
           => ~Pending(given[k].msg)'
  PROVE  OlderFirst' /\ AppliedInOrder'
<1>1. \A k, l \in DOMAIN given : Ordered(k, l)' <=> Ordered(k, l)
  BY OrderedSame
<1>2. AppliedInOrder'
  BY DEF AppliedInOrder
<1>3. ASSUME NEW k \in DOMAIN given, NEW l \in DOMAIN given, Ordered(k, l),
             \E i \in DOMAIN applied : applied[i] = given[l].msg
      PROVE  ~Pending(given[k].msg)'
  BY <1>3 DEF OlderFirst
<1>4. QED BY <1>1, <1>2, <1>3 DEF OlderFirst

LEMMA OrderKept ==
  ASSUME TypeOK, TypeOK', Messages, OnePlace, set = "StrSet", InOrderOfArrival,
         OlderFirst, AppliedInOrder, [Next]_vars
  PROVE  OlderFirst' /\ AppliedInOrder'
<1> USE Constants, GivenFacts
<1>1. ASSUME NEW m \in Message, Receive(m) PROVE OlderFirst' /\ AppliedInOrder'
  <2> DEFINE L == Len(given)
             g == [msg |-> m, name |-> nextNodeName["receiver"]]
  <2>1. /\ given' = Append(given, g) /\ m \in incoming
        /\ UNCHANGED <<data, listed, reading, applied>>
    BY <1>1 DEF Receive, counterVars, scanVars
  <2>2. /\ DOMAIN given' = 1..(L + 1) /\ given'[L + 1] = g
        /\ \A j \in 1..L : given'[j] = given[j]
    BY <2>1 DEF TypeOK
  <2>3. Fresh(m)
    BY <2>1 DEF OnePlace
  <2>4. \A i \in DOMAIN applied : applied[i] # m
    <3>1. \A j \in 1..Written : j \in DOMAIN given
      BY WrittenFacts
    <3>2. QED BY <2>1, <3>1 DEF InOrderOfArrival
  <2>5. g.msg = m
    OBVIOUS
  <2> HIDE DEF g
  <2>6. \A k, l \in DOMAIN given' : k < l => k \in DOMAIN given /\ (l \in DOMAIN given \/ l = L + 1)
    BY <2>2
  <2>7. \A k, l \in DOMAIN given : Ordered(k, l)' <=> Ordered(k, l)
    BY <2>2 DEF Ordered
  <2>8. OlderFirst'
    <3> SUFFICES ASSUME NEW k \in DOMAIN given', NEW l \in DOMAIN given', Ordered(k, l)'
                 PROVE
      /\ /\ given'[l].name \in listed'
         /\ data'[given'[l].name] = given'[l].msg
         /\ data'[given'[k].name] = given'[k].msg
         => \/ given'[k].name \in listed'
            \/ /\ reading'.name = given'[k].name /\ reading'.msg = given'[k].msg
               /\ reading'.step \in {"remove"} \cup Replacing
      /\ \/ reading'.msg = given'[l].msg /\ reading'.step \in Replacing
         \/ \E i \in DOMAIN applied' : applied'[i] = given'[l].msg
         => ~Pending(given[k].msg)'
      BY DEF OlderFirst
    <3>1. k < l
      BY DEF Ordered
    <3>2. CASE l \in DOMAIN given
      <4>1. k \in DOMAIN given /\ Ordered(k, l) /\ given'[k] = given[k] /\ given'[l] = given[l]
        BY <2>2, <2>6, <2>7, <3>1, <3>2
      <4>2. Pending(given[k].msg)' <=> Pending(given[k].msg)
        BY <2>1, <4>1 DEF Pending
      <4>3. QED BY <2>1, <3>2, <4>1, <4>2 DEF OlderFirst
    <3>3. CASE l = L + 1
      <4>1. given'[l].msg = m /\ listed' \subseteq Name
        BY <2>2, <2>5, <3>3 DEF TypeOK
      <4>2. QED BY <2>1, <2>3, <2>4, <4>1 DEF Fresh
    <3>4. QED BY <2>6, <3>1, <3>2, <3>3
  <2>9. AppliedInOrder'
    <3> SUFFICES ASSUME NEW k \in DOMAIN given', NEW l \in DOMAIN given', Ordered(k, l)',
                        NEW i \in DOMAIN applied, NEW j \in DOMAIN applied, i < j,
                        applied[i] = given'[l].msg, applied[j] = given'[k].msg
                 PROVE  FALSE
      BY <2>1 DEF AppliedInOrder, Ordered
    <3>1. k < l
      BY DEF Ordered
    <3>2. l \in DOMAIN given
      BY <2>2, <2>4, <2>5, <2>6, <3>1
    <3>3. k \in DOMAIN given /\ Ordered(k, l) /\ given'[k] = given[k] /\ given'[l] = given[l]
      BY <2>2, <2>6, <2>7, <3>1, <3>2
    <3>4. QED BY <3>2, <3>3 DEF AppliedInOrder, Ordered
  <2>10. QED BY <2>8, <2>9
<1>2. CASE \/ LoadName \/ CountName \/ RemoveOld \/ CreateFile \/ CreateTime \/ WriteTime
           \/ StartUpdate \/ EndUpdate \/ UNCHANGED vars
  <2>1. /\ UNCHANGED <<given, listed, reading, applied>>
        /\ \A n \in Name : data'[n] \in Message => data'[n] = data[n]
    BY <1>2 DEF LoadName, CountName, RemoveOld, CreateFile, CreateTime, WriteTime, StartUpdate,
       EndUpdate, vars, scanVars, setVars, TypeOK
  <2>2. \A k \in DOMAIN given : Pending(given[k].msg)' => Pending(given[k].msg)
    BY <2>1 DEF Pending
  <2>3. QED BY <2>1, <2>2, OrderKeptIf DEF OlderFirst
<1>3. CASE WriteFile
  <2>1. /\ UNCHANGED <<given, listed, reading, applied>>
        /\ receiver.step = "write"
        /\ \A n \in Name : data'[n] \in Message =>
             data'[n] = data[n] \/ (n = receiver.name /\ data'[n] = receiver.msg)
    BY <1>3 DEF WriteFile, Step, TypeOK, scanVars, setVars
  <2> DEFINE L == Len(given)
  <2>2. /\ Written = L - 1 /\ L \in DOMAIN given
        /\ given[L].msg = receiver.msg /\ given[L].name = receiver.name
    BY <2>1, WrittenFacts DEF InOrderOfArrival
  <2>3. \A k \in DOMAIN given : k < L => given[k].msg # receiver.msg
    BY <2>2 DEF InOrderOfArrival
  <2>4. ASSUME NEW l \in DOMAIN given, NEW k \in DOMAIN given, Ordered(k, l)
        PROVE  /\ k < L
               /\ given[l].name \in listed => l < L
    <3>1. k < L
      BY <2>4 DEF Ordered
    <3>2. ASSUME given[l].name \in listed PROVE l < L
      <4>1. PICK j \in 1..Written : given[j].name = given[l].name
        BY <3>2 DEF InOrderOfArrival
      <4>2. l # L
        BY <2>2, <2>4, <4>1 DEF Ordered
      <4>3. QED BY <4>2
    <3>3. QED BY <3>1, <3>2
  <2>5. \A k \in DOMAIN given, n \in Name :
          k < L /\ data'[n] = given[k].msg => data[n] = given[k].msg
    BY <2>1, <2>3
  <2> HIDE DEF L
  <2>6. \A k \in DOMAIN given : k < L => (Pending(given[k].msg)' => Pending(given[k].msg))
    BY <2>1, <2>5 DEF Pending
  <2>7. AppliedInOrder'
    BY <2>1 DEF AppliedInOrder
  <2>8. ASSUME NEW k \in DOMAIN given, NEW l \in DOMAIN given, Ordered(k, l)
        PROVE
      /\ /\ given[l].name \in listed
         /\ data'[given[l].name] = given[l].msg
         /\ data'[given[k].name] = given[k].msg
         => \/ given[k].name \in listed
            \/ /\ reading.name = given[k].name /\ reading.msg = given[k].msg
               /\ reading.step \in {"remove"} \cup Replacing
      /\ \/ reading.msg = given[l].msg /\ reading.step \in Replacing
         \/ \E i \in DOMAIN applied : applied[i] = given[l].msg
         => ~Pending(given[k].msg)'
    BY <2>4, <2>5, <2>6, <2>8 DEF OlderFirst
  <2>9. \A k, l \in DOMAIN given : Ordered(k, l)' <=> Ordered(k, l)
    BY <2>1, OrderedSame
  <2>10. QED BY <2>1, <2>7, <2>8, <2>9 DEF OlderFirst
<1>4. CASE List
  <2>1. /\ UNCHANGED <<given, data, reading, applied>>
        /\ listed' = Filled
    BY <1>4 DEF List, setVars
  <2>2. \A k \in DOMAIN given : data[given[k].name] = given[k].msg => given[k].name \in listed'
    BY <2>1 DEF Filled
  <2>3. \A k \in DOMAIN given : Pending(given[k].msg)' <=> Pending(given[k].msg)
    BY <2>1 DEF Pending
  <2>4. QED BY <2>1, <2>2, <2>3, OrderKeptIf DEF OlderFirst
<1>5. ASSUME NEW n \in Name, Open(n) PROVE OlderFirst' /\ AppliedInOrder'
  <2>1. /\ UNCHANGED <<given, data, applied>> /\ reading.step = "idle"
        /\ n \in listed /\ listed' = listed \ {n}
        /\ \A h \in listed \ {n} : Before(n, h)
    BY <1>5 DEF Open, NextListed, setVars, NotReading
  <2>2. /\ reading'.step \in Replacing => reading'.msg = data[n]
        /\ data[n] \in Message => /\ reading'.name = n /\ reading'.msg = data[n]
                                  /\ reading'.step = "get"
    BY <1>5 DEF Open, AfterOpen, NotReading, Replacing
  <2>3. \A k \in DOMAIN given : Pending(given[k].msg)' => Pending(given[k].msg)
    BY <2>1, <2>2 DEF Pending
  <2>4. ASSUME NEW k \in DOMAIN given, NEW l \in DOMAIN given, Ordered(k, l),
               given[l].name \in listed', data'[given[l].name] = given[l].msg,
               data'[given[k].name] = given[k].msg
        PROVE  \/ given[k].name \in listed'
               \/ /\ reading'.name = given[k].name /\ reading'.msg = given[k].msg
                  /\ reading'.step \in {"remove"} \cup Replacing
    <3>1. given[k].name \in listed
      BY <2>1, <2>4 DEF OlderFirst, Replacing
    <3>2. CASE given[k].name = n
      BY <2>1, <2>2, <2>4, <3>2 DEF Replacing
    <3>3. CASE given[k].name # n
      BY <2>1, <3>1, <3>3
    <3>4. QED BY <3>2, <3>3
  <2>5. ASSUME NEW k \in DOMAIN given, NEW l \in DOMAIN given, Ordered(k, l),
               reading'.msg = given[l].msg, reading'.step \in Replacing
        PROVE  ~Pending(given[k].msg)'
    <3>1. data[n] = given[l].msg /\ given[l].name = n
      BY <2>2, <2>5, FilesOfGiven
    <3>2. given[k].msg # given[l].msg
      BY <2>5 DEF Ordered, InOrderOfArrival
    <3>3. SUFFICES ASSUME NEW h \in Name, data[h] = given[k].msg PROVE FALSE
      BY <2>1, <2>5, <3>2 DEF Pending
    <3>4. given[k].name = h
      BY <3>3, FilesOfGiven
    <3>5. h \in listed
      BY <2>1, <2>5, <3>1, <3>3, <3>4 DEF OlderFirst, Replacing
    <3>6. Before(h, n)
      BY <2>5, <3>1, <3>4 DEF Ordered
    <3>7. h # n /\ ~Before(n, h)
      BY <3>6, BeforeIsStrict
    <3>8. QED BY <2>1, <3>5, <3>7
  <2>6. QED BY <2>1, <2>3, <2>4, <2>5, OrderKeptIf
<1>6. CASE CheckTime \/ LoadSetName \/ RemoveFile \/ OpenTime
  <2>1. /\ UNCHANGED <<given, listed, applied>>
        /\ \A h \in Name : data'[h] \in Message => data'[h] = data[h]
        /\ reading'.step \in Replacing => reading.step \in Replacing /\ reading'.msg = reading.msg
    BY <1>6, ReadStepFacts
  <2>2. \/ reading.step \notin {"remove"} \cup Replacing
        \/ data'[reading.name] = "absent"
        \/ reading'.step \in Replacing /\ reading'.name = reading.name /\ reading'.msg = reading.msg
    BY <1>6, ReadStepFacts
  <2>3. \A k \in DOMAIN given : Pending(given[k].msg)' => Pending(given[k].msg)
    BY <2>1 DEF Pending
  <2>4. ASSUME NEW k \in DOMAIN given, NEW l \in DOMAIN given, Ordered(k, l),
               given[l].name \in listed', data'[given[l].name] = given[l].msg,
               data'[given[k].name] = given[k].msg
        PROVE  \/ given[k].name \in listed'
               \/ /\ reading'.name = given[k].name /\ reading'.msg = given[k].msg
                  /\ reading'.step \in {"remove"} \cup Replacing
    <3>1. /\ given[l].name \in listed /\ data[given[l].name] = given[l].msg
          /\ data[given[k].name] = given[k].msg
      BY <2>1, <2>4
    <3>2. \/ given[k].name \in listed
          \/ /\ reading.name = given[k].name /\ reading.msg = given[k].msg
             /\ reading.step \in {"remove"} \cup Replacing
      BY <2>4, <3>1 DEF OlderFirst
    <3>3. QED BY <2>1, <2>2, <2>4, <3>2
  <2>5. ASSUME NEW k \in DOMAIN given, NEW l \in DOMAIN given, Ordered(k, l),
               reading'.msg = given[l].msg, reading'.step \in Replacing
        PROVE  ~Pending(given[k].msg)'
    BY <2>1, <2>3, <2>5 DEF OlderFirst
  <2>6. QED BY <2>1, <2>3, <2>4, <2>5, OrderKeptIf
<1>7. CASE ReplaceSet
  <2>1. /\ UNCHANGED <<given, listed, data>> /\ reading.step \in Replacing
        /\ applied' = Append(applied, reading.msg)
        /\ reading'.step = "remove" /\ reading'.name = reading.name /\ reading'.msg = reading.msg
    BY <1>7 DEF ReplaceSet, TypeOK, Replacing
  <2> DEFINE A == Len(applied)
  <2>2. /\ DOMAIN applied' = 1..(A + 1) /\ applied'[A + 1] = reading.msg
        /\ \A i \in 1..A : applied'[i] = applied[i]
    BY <2>1 DEF TypeOK
  <2>3. \A k, l \in DOMAIN given : Ordered(k, l)' <=> Ordered(k, l)
    BY <2>1, OrderedSame
  <2>4. \A k \in DOMAIN given : Pending(given[k].msg)' => Pending(given[k].msg)
    BY <2>1 DEF Pending, Replacing
  <2>5. OlderFirst'
    <3>1. ASSUME NEW k \in DOMAIN given, NEW l \in DOMAIN given, Ordered(k, l),
                 \E i \in DOMAIN applied' : applied'[i] = given[l].msg
          PROVE  ~Pending(given[k].msg)
      <4>1. PICK i \in DOMAIN applied' : applied'[i] = given[l].msg
        BY <3>1
      <4>2. CASE i = A + 1
        BY <2>1, <2>2, <3>1, <4>1, <4>2 DEF OlderFirst
      <4>3. CASE i \in 1..A
        BY <2>2, <3>1, <4>1, <4>3 DEF OlderFirst
      <4>4. QED BY <2>2, <4>2, <4>3
    <3>2. \A k, l \in DOMAIN given :
            /\ Ordered(k, l)
            /\ given[l].name \in listed
            /\ data[given[l].name] = given[l].msg
            /\ data[given[k].name] = given[k].msg
            => \/ given[k].name \in listed
               \/ /\ reading.name = given[k].name /\ reading.msg = given[k].msg
                  /\ reading'.step \in {"remove"} \cup Replacing
      BY <2>1 DEF OlderFirst
    <3>3. reading'.step \notin Replacing
      BY <2>1 DEF Replacing
    <3>4. QED BY <2>1, <2>3, <2>4, <3>1, <3>2, <3>3 DEF OlderFirst
  <2>6. AppliedInOrder'
    <3> SUFFICES ASSUME NEW k \in DOMAIN given, NEW l \in DOMAIN given, Ordered(k, l),
                        NEW i \in DOMAIN applied', NEW j \in DOMAIN applied', i < j,
                        applied'[i] = given[l].msg, applied'[j] = given[k].msg
                 PROVE  FALSE
      BY <2>1 DEF AppliedInOrder, Ordered
    <3>1. i \in 1..A /\ applied[i] = given[l].msg
      BY <2>2
    <3>2. ~Pending(given[k].msg)
      BY <3>1 DEF OlderFirst
    <3>3. reading.msg # given[k].msg
      BY <2>1, <3>2 DEF Pending
    <3>4. j \in 1..A /\ applied[j] = given[k].msg
      BY <2>2, <3>3
    <3>5. QED BY <3>1, <3>4 DEF AppliedInOrder, Ordered
  <2>7. QED BY <2>5, <2>6
<1>8. QED
  BY <1>1, <1>2, <1>3, <1>4, <1>5, <1>6, <1>7 DEF Next, Receiver, CheckUpdate

-----------------------------------------------------------------------------
(* The invariant, and what follows from it.                                *)

LEMMA FolderInvKept == FolderInv /\ [Next]_vars => FolderInv'
<1> SUFFICES ASSUME FolderInv, [Next]_vars PROVE FolderInv'
  OBVIOUS
<1>1. /\ TypeOK /\ Messages /\ OnePlace /\ CollectedOnce
      /\ set = "2PSet" => EveryNameNew /\ ScanFindsFiles /\ Kept
      /\ set = "StrSet" => InOrderOfArrival /\ OlderFirst /\ AppliedInOrder
      /\ set # "StrSet" => given = <<>>
  BY DEF FolderInv
<1>2. set' = set
  BY SetKept
<1>3. TypeOK' /\ Messages'
  BY <1>1, TypesKept
<1>4. OnePlace' /\ CollectedOnce'
  BY <1>1, OnePlaceKept, CollectedOnceKept
<1>5. set = "2PSet" => EveryNameNew' /\ ScanFindsFiles' /\ Kept'
  BY <1>1, OwnCounterKept, KeptOnTheWay
<1>6. set = "StrSet" => InOrderOfArrival' /\ OlderFirst' /\ AppliedInOrder'
  BY <1>1, <1>3, ArrivalKept, OrderKept
<1>7. set # "StrSet" => given' = <<>>
  BY <1>1 DEF Next, vars, Receiver, CheckUpdate, Receive, LoadName, CountName, RemoveOld,
     CreateFile, WriteFile, CreateTime, WriteTime, List, Open, CheckTime, LoadSetName,
     ReplaceSet, RemoveFile, OpenTime, StartUpdate, EndUpdate, setVars
<1>8. QED BY <1>2, <1>3, <1>4, <1>5, <1>6, <1>7 DEF FolderInv

\* The invariant holds in every reachable state.
THEOREM FolderInvariance == Spec => []FolderInv
<1>1. Init => FolderInv
  BY InitFolder
<1>2. FolderInv /\ [Next]_vars => FolderInv'
  BY FolderInvKept
<1>3. QED BY <1>1, <1>2, PTL DEF Spec

\* No CID is handed to Merge twice, whether or not names repeat: for any set.
THEOREM CollectedAtMostOnce == Spec => []CollectedOnce
<1>1. FolderInv => CollectedOnce
  BY DEF FolderInv
<1>2. QED BY <1>1, FolderInvariance, PTL

\* 2PSet loses no CID that pubsub handed over, however receiver, scan and local
\* updates interleave.
THEOREM TwoPhaseSetLosesNothing == Spec => []NothingLost
<1>1. FolderInv => NothingLost
  <2> SUFFICES ASSUME FolderInv, Running, ~Shared, NEW m \in Message \ incoming
               PROVE  \/ receiver.msg = m \/ (\E n \in Name : data[n] = m) \/ reading.msg = m
                      \/ collected[m] > 0
    BY DEF NothingLost
  <2>1. Kept
    BY DEF FolderInv, Shared
  <2>2. QED BY <2>1 DEF Kept
<1>2. QED BY <1>1, FolderInvariance, PTL

\* CheckUpdate of 2PSet never panics: it finds and can remove each file it listed
\* (2PSet.go:540, the panics after os.OpenFile and os.Remove).
THEOREM TwoPhaseSetScanRuns == Spec => [](set = "2PSet" => Running)
<1>1. FolderInv => (set = "2PSet" => Running)
  BY DEF FolderInv, ScanFindsFiles, Running
<1>2. QED BY <1>1, FolderInvariance, PTL

\* StrSet: a set that arrived earlier under an earlier name does not replace one
\* that arrived later under a new name, for any base, counter and update.
THEOREM ArrivalOrder == Spec => []AppliedInOrder
<1>1. FolderInv => AppliedInOrder
  <2>1. ASSUME given = <<>> PROVE AppliedInOrder
    BY <2>1 DEF AppliedInOrder
  <2>2. QED BY <2>1 DEF FolderInv
<1>2. QED BY <1>1, FolderInvariance, PTL
=============================================================================
