----------------------------- MODULE Facilities -----------------------------
(***************************************************************************)
(* The Facilities partition of one app (class Facilities, facilities.py):  *)
(* a broker between the app and its backend, and a store with a quota.     *)
(*                                                                         *)
(* One step is one packet taken by loop(), one call of a packet (an        *)
(* iteration of fe2be_process_protobuf's loop), or the end of the          *)
(* process.  An exception that no handler of the code catches ends it.     *)
(* The statements of process_set's try block take effect one by one, and   *)
(* its bare except catches whatever stops them, Ctrl-C included: Faults    *)
(* says after which of them that may happen.                               *)
(***************************************************************************)
EXTENDS Integers, Sequences

CONSTANTS Keys,    \* the names an app uses in io_set and io_get
          BadKeys, \* those of them that get_name_ok rejects
          Values,  \* what it stores
          Chars,   \* len(value)
          Bytes,   \* len(value.encode())
          MaxDisk, \* MAX_DISK_USAGE
          MaxIo,   \* bound: files one process writes
          MaxDrift,\* bound: how far disk_usage falls below 0
          Faults,  \* after how many statements a write may stop
          Messages,\* what the app sends to its backend
          NoFile, Absent, Damaged, Garbled, NoAnswer

Contents == [of : Values, bytes : Nat, stale : BOOLEAN]

ASSUME FacAssumption ==
  /\ BadKeys \subseteq Keys
  /\ Chars \in [Values -> Nat]
  /\ Bytes \in [Values -> Nat]
  /\ \A v \in Values : Chars[v] <= Bytes[v]
  /\ MaxDisk \in Nat
  /\ MaxIo \in Nat
  /\ MaxDrift \in Nat
  /\ Faults \subseteq 0 .. 7
  /\ NoFile \notin Contents
  /\ Absent \notin Values
  /\ Damaged \notin Values
  /\ Absent # Damaged

VARIABLES facPc,     \* where the process is
          calls,     \* the calls of fmsg_in still to be served
          sync,      \* the packet came from a REQ socket
          fmsgOut,   \* the replies in fmsg_out
          storage,   \* key -> the number of its file
          ioId,      \* io_id, the next number
          diskUsage, \* disk_usage
          files,     \* the files in FAC_IO_DIR, by number
          onDisk,    \* history: bytes of the files this process wrote
          exact      \* history: nothing has happened that diskUsage misses

storeVars == <<storage, ioId, diskUsage, files, onDisk, exact>>
facVars   == <<facPc, calls, sync, fmsgOut, storeVars>>

NoId    == -1
FileIds == 0 .. MaxIo

(* The calls of facilities.proto, and the replies to them.                 *)
SetCall(k, v) == [type |-> "SET", key |-> k, value |-> v]
GetCall(k)    == [type |-> "GET", key |-> k]
MsgCall(m)    == [type |-> "BE_MSG", value |-> m]
Calls ==
  [type : {"SET"}, key : Keys, value : Values]
    \cup [type : {"GET"}, key : Keys]
    \cup [type : {"BE_MSG"}, value : Messages]

(* Mutant: the result field is left unset.                                 *)
SetRetNoResult(k, ok) == [type |-> "SET_RET", key |-> k]

SetRet(k, ok) == [type |-> "SET_RET", key |-> k, ok |-> ok]

GetRet(k, v)  == [type |-> "GET_RET", key |-> k, ok |-> TRUE, value |-> v]
GetBad(k)     == [type |-> "GET_RET", key |-> k, ok |-> FALSE]
MsgRet        == [type |-> "BE_MSG_RET"]
Replies ==
  [type : {"SET_RET"}, key : Keys, ok : BOOLEAN]
    \cup [type : {"GET_RET"}, key : Keys, ok : {TRUE}, value : Values \cup {Garbled}]
    \cup [type : {"GET_RET"}, key : Keys, ok : {FALSE}]
    \cup {MsgRet}

FacTypeOK ==
  /\ facPc \in {"poll", "calls", "recv", "down"}
  /\ calls \in Seq(Calls)
  /\ sync \in BOOLEAN
  /\ fmsgOut \in Seq(Replies)
  /\ storage \in [Keys -> FileIds \cup {NoId}]
  /\ ioId \in FileIds
  /\ diskUsage \in Int
  /\ files \in [FileIds -> Contents \cup {NoFile}]
  /\ onDisk \in Int
  /\ exact \in BOOLEAN

FacInit ==
  /\ facPc = "poll"
  /\ calls = <<>>
  /\ sync = FALSE
  /\ fmsgOut = <<>>
  /\ storage = [k \in Keys |-> NoId]
  /\ ioId = 0
  /\ diskUsage = 0
  /\ files = [id \in FileIds |-> NoFile]
  /\ onDisk = 0
  /\ exact = TRUE

-----------------------------------------------------------------------------
(* The end of the process and the next one.                                *)

(* shutdown removes the files of storage in the order of their numbers     *)
(* (a key that is written anew goes to the end of the dictionary); the     *)
(* first that is not there raises, and the rest stay.                      *)
Removed ==
  {id \in FileIds :
     /\ \E k \in Keys : storage[k] = id
     /\ \A k \in Keys : storage[k] \in 0 .. id => files[storage[k]] # NoFile}

(* The process ends: by an exception or Ctrl-C, and then shutdown runs     *)
(* (from main or from atexit), or by a signal, or because a thread of      *)
(* pyzmq keeps the interpreter from getting to atexit, and then it does    *)
(* not.                                                                    *)
GoDown ==
  /\ facPc' = "down"
  /\ calls' = <<>>
  /\ fmsgOut' = <<>>
  /\ \E swept \in BOOLEAN :
       files' = [id \in FileIds |-> IF swept /\ id \in Removed THEN NoFile ELSE files[id]]
  /\ storage' = [k \in Keys |-> NoId]
  /\ sync' = FALSE
  /\ UNCHANGED <<ioId, diskUsage, onDisk, exact>>

(* A new process numbers its files from 0 again, in the same directory.    *)
FacStart ==
  /\ facPc = "down"
  /\ facPc' = "poll"
  /\ ioId' = 0
  /\ diskUsage' = 0
  /\ files' = [id \in FileIds |->
                 IF files[id] = NoFile THEN NoFile ELSE [files[id] EXCEPT !.stale = TRUE]]
  /\ onDisk' = 0
  /\ exact' = TRUE
  /\ UNCHANGED <<calls, sync, fmsgOut, storage>>

-----------------------------------------------------------------------------
(* Packets from the app.                                                   *)

TakePacket(p, isSync) ==
  /\ facPc = "poll"
  /\ facPc' = "calls"
  /\ calls' = p
  /\ sync' = isSync
  /\ UNCHANGED <<fmsgOut, storeVars>>

IsNext(type) ==
  /\ facPc = "calls"
  /\ calls # <<>>
  /\ Head(calls).type = type

Answer(reply) ==
  /\ fmsgOut' = Append(fmsgOut, reply)
  /\ calls' = Tail(calls)
  /\ UNCHANGED <<facPc, sync>>

(* Mutant: the message is read but not popped.                             *)
PassOnWithoutPop ==
  /\ IsNext("BE_MSG")
  /\ ~sync
  /\ UNCHANGED <<facPc, calls, sync, fmsgOut, storeVars>>

(* A notification is passed on to the backend and not answered.            *)
PassOn ==
  /\ IsNext("BE_MSG")
  /\ ~sync
  /\ calls' = Tail(calls)
  /\ UNCHANGED <<facPc, sync, fmsgOut, storeVars>>

(* A request is passed on too, and the process waits for the backend.      *)
Ask ==
  /\ IsNext("BE_MSG")
  /\ sync
  /\ facPc' = "recv"
  /\ UNCHANGED <<calls, sync, fmsgOut, storeVars>>

(* Mutant: the request is sent again after the answer.                     *)
BackendAnswersRetry ==
  /\ facPc = "recv"
  /\ facPc' = "calls"
  /\ fmsgOut' = <<MsgRet>>
  /\ UNCHANGED <<calls, sync, storeVars>>

(* fmsg_out is cleared first: replies to earlier calls are lost.           *)
BackendAnswers ==
  /\ facPc = "recv"
  /\ facPc' = "calls"
  /\ fmsgOut' = <<MsgRet>>
  /\ calls' = Tail(calls)
  /\ UNCHANGED <<sync, storeVars>>

(* fmsg_out is cleared before each packet, of the app or of the backend;   *)
(* here, which comes to the same, after it.                                *)
(*                                                                         *)
(* An async packet is not answered.  To answer a sync one, the loop calls  *)
(* encode() on the identity, which is bytes already: AttributeError.       *)
EndPacket ==
  /\ facPc = "calls"
  /\ calls = <<>>
  /\ IF sync
     THEN GoDown
     ELSE /\ facPc' = "poll"
          /\ fmsgOut' = <<>>
          /\ UNCHANGED <<calls, sync, storeVars>>

-----------------------------------------------------------------------------
(* process_get.                                                            *)

(* The file of a key, if it has one.                                       *)
Held(k) == IF storage[k] = NoId THEN NoFile ELSE files[storage[k]]

Whole(file) == file.bytes = Bytes[file.of]

GetRejected(k) ==
  /\ k \in BadKeys
  /\ Answer(GetBad(k))
  /\ UNCHANGED storeVars

GetAnswers(k) ==
  /\ k \notin BadKeys
  /\ Held(k) # NoFile
  /\ Answer(GetRet(k, IF Whole(Held(k)) THEN Held(k).of ELSE Garbled))
  /\ UNCHANGED storeVars

(* No such key (KeyError), no such file, or one cut short in the middle of *)
(* a character: none of these is an IndexError.                            *)
GetRaises(k) ==
  /\ k \notin BadKeys
  /\ IF Held(k) = NoFile THEN TRUE ELSE ~Whole(Held(k))
  /\ GoDown

Get ==
  /\ IsNext("GET")
  /\ LET k == Head(calls).key IN GetRejected(k) \/ GetAnswers(k) \/ GetRaises(k)

-----------------------------------------------------------------------------
(* process_set.                                                            *)

(* Mutant: the file is opened before the key is entered.                   *)
SetFileFirst(k, v, n, w) ==
  LET old == storage[k]
      replaces == old # NoId /\ n >= 1
      size == IF replaces THEN files[old].bytes ELSE 0
      foreign == replaces /\ files[old].stale
  IN /\ diskUsage' = diskUsage - size + (IF n >= 5 THEN Chars[v] ELSE 0)
     /\ files' = [id \in FileIds |->
                    IF id = ioId /\ n >= 6 THEN [of |-> v, bytes |-> w, stale |-> FALSE]
                    ELSE IF id = old /\ n >= 2 THEN NoFile ELSE files[id]]
     /\ storage' = [storage EXCEPT ![k] = IF n >= 7 THEN ioId ELSE IF n >= 3 THEN NoId ELSE @]
     /\ ioId' = IF n >= 4 THEN ioId + 1 ELSE ioId
     /\ onDisk' = onDisk - (IF n >= 2 /\ ~foreign THEN size ELSE 0) + (IF n >= 7 THEN w ELSE 0)
     /\ exact' = (exact /\ ~(replaces /\ n = 1) /\ ~foreign /\ (n >= 7 => Chars[v] = Bytes[v]))

(* Mutant: the old file is not removed.                                    *)
SetKeepsOld(k, v, n, w) ==
  LET old == storage[k]
      replaces == old # NoId /\ n >= 1
      size == IF replaces THEN files[old].bytes ELSE 0
      foreign == replaces /\ files[old].stale
  IN /\ diskUsage' = diskUsage - size + (IF n >= 5 THEN Chars[v] ELSE 0)
     /\ files' = [id \in FileIds |->
                    IF id = ioId /\ n >= 7 THEN [of |-> v, bytes |-> w, stale |-> FALSE]
                    ELSE files[id]]
     /\ storage' = [storage EXCEPT ![k] = IF n >= 6 THEN ioId ELSE IF n >= 3 THEN NoId ELSE @]
     /\ ioId' = IF n >= 4 THEN ioId + 1 ELSE ioId
     /\ onDisk' = onDisk - (IF n >= 2 /\ ~foreign THEN size ELSE 0) + (IF n >= 7 THEN w ELSE 0)
     /\ exact' = (exact /\ ~(replaces /\ n = 1) /\ ~foreign /\ (n >= 7 => Chars[v] = Bytes[v]))

(* Mutant: the number is taken only when the write has succeeded.          *)
SetLateNumber(k, v, n, w) ==
  LET old == storage[k]
      replaces == old # NoId /\ n >= 1
      size == IF replaces THEN files[old].bytes ELSE 0
      foreign == replaces /\ files[old].stale
  IN /\ diskUsage' = diskUsage - size + (IF n >= 5 THEN Chars[v] ELSE 0)
     /\ files' = [id \in FileIds |->
                    IF id = ioId /\ n >= 7 THEN [of |-> v, bytes |-> w, stale |-> FALSE]
                    ELSE IF id = old /\ n >= 2 THEN NoFile ELSE files[id]]
     /\ storage' = [storage EXCEPT ![k] = IF n >= 6 THEN ioId ELSE IF n >= 3 THEN NoId ELSE @]
     /\ ioId' = IF n >= 8 THEN ioId + 1 ELSE ioId
     /\ onDisk' = onDisk - (IF n >= 2 /\ ~foreign THEN size ELSE 0) + (IF n >= 7 THEN w ELSE 0)
     /\ exact' = (exact /\ ~(replaces /\ n = 1) /\ ~foreign /\ (n >= 7 => Chars[v] = Bytes[v]))

(* The state after n statements of the try block: 1 disk_usage lowered by  *)
(* the old file's size, 2 that file removed, 3 the key deleted, 4 the      *)
(* number taken, 5 disk_usage raised, 6 the key entered, 7 the new file    *)
(* opened and w bytes in it, 8 all of them.  A key without a value starts  *)
(* with the fourth.                                                        *)
SetEffect(k, v, n, w) ==
  LET old == storage[k]
      replaces == old # NoId /\ n >= 1
      size == IF replaces THEN files[old].bytes ELSE 0
      foreign == replaces /\ files[old].stale
  IN /\ diskUsage' = diskUsage - size + (IF n >= 5 THEN Chars[v] ELSE 0)
     /\ files' = [id \in FileIds |->
                    IF id = ioId /\ n >= 7 THEN [of |-> v, bytes |-> w, stale |-> FALSE]
                    ELSE IF id = old /\ n >= 2 THEN NoFile ELSE files[id]]
     /\ storage' = [storage EXCEPT ![k] = IF n >= 6 THEN ioId ELSE IF n >= 3 THEN NoId ELSE @]
     /\ ioId' = IF n >= 4 THEN ioId + 1 ELSE ioId
     /\ onDisk' = onDisk - (IF n >= 2 /\ ~foreign THEN size ELSE 0) + (IF n >= 7 THEN w ELSE 0)
     /\ exact' = (exact /\ ~(replaces /\ n = 1) /\ ~foreign /\ (n >= 7 => Chars[v] = Bytes[v]))

(* Where a write of k may stop: before getsize if there is no old file to  *)
(* measure, never before the fourth statement if there was no old value.   *)
StopsAt(k) ==
  IF storage[k] = NoId THEN Faults \cap (3 .. 7)
  ELSE IF Held(k) = NoFile THEN {0}
  ELSE Faults

InBounds == ioId < MaxIo /\ -MaxDrift <= diskUsage

(* Mutant: the size of the new value is left out of the comparison.        *)
WithinQuotaLate(v) == diskUsage <= MaxDisk

WithinQuota(v) == diskUsage + Bytes[v] <= MaxDisk

(* A bad name: Set_ret has no field "value" for the handler to clear.      *)
SetBadName ==
  /\ IsNext("SET")
  /\ Head(calls).key \in BadKeys
  /\ GoDown

SetRefused ==
  /\ IsNext("SET")
  /\ LET k == Head(calls).key
         v == Head(calls).value
     IN /\ k \notin BadKeys
        /\ ~WithinQuota(v)
        /\ Answer(SetRet(k, FALSE))
        /\ UNCHANGED storeVars

SetFails ==
  /\ IsNext("SET")
  /\ InBounds
  /\ LET k == Head(calls).key
         v == Head(calls).value
     IN /\ k \notin BadKeys
        /\ WithinQuota(v)
        /\ \E n \in StopsAt(k), w \in 0 .. Bytes[v] : SetEffect(k, v, n, w)
        /\ Answer(SetRet(k, FALSE))

SetDone ==
  /\ IsNext("SET")
  /\ InBounds
  /\ LET k == Head(calls).key
         v == Head(calls).value
     IN /\ k \notin BadKeys
        /\ WithinQuota(v)
        /\ storage[k] # NoId => Held(k) # NoFile
        /\ SetEffect(k, v, 8, Bytes[v])
        /\ Answer(SetRet(k, TRUE))

ServeCall == Get \/ SetBadName \/ SetRefused \/ SetFails \/ SetDone
=============================================================================
