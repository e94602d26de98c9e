-------------------------- MODULE FileCommandsProofs --------------------------
(***************************************************************************)
(* Proofs about the commands on exported files, for any files, objects,    *)
(* keys, settings and number of commands: what a file holds, what of it is *)
(* kept and by what it may be lost, which keys its values have, what a     *)
(* command has done when it succeeds, and what it reports.                 *)
(***************************************************************************)
EXTENDS FileCommands, ObjectsProofs

(***************************************************************************)
(* The inductive invariant.  A file is printed from memory, so the file in *)
(* memory must not be one that lost a part without being damaged; and the  *)
(* file that is truncated must be the one that is printed next.            *)
(***************************************************************************)

InCommand == {"encrypt", "decrypt", "owner", "truncate", "print"}

FileRecord(r) == r = [obj |-> r.obj, refs |-> r.refs, lost |-> r.lost]

FilesShape ==
    /\ disk = [f \in Files |-> disk[f]]
    /\ \A f \in Files : FileRecord(disk[f])
    /\ FileRecord(mem)

\* A command has a current file, and no other place than these.
CurrentFile ==
    /\ pc # "idle" => op \in {"encrypt", "decrypt", "update"}
    /\ pc \in InCommand \cup {"idle", "read"}
    /\ todo \in Seq(Files)
    /\ pc = "idle" <=> todo = <<>>

MemoryComplete == pc \in InCommand /\ mem.lost => Head(todo) \in damaged

FInv == FilesShape /\ CurrentFile /\ MemoryComplete /\ LostOnlyByFailure
-----------------------------------------------------------------------------

\* What a command has as its current file.
LEMMA HeadIsFile == ASSUME FInv, pc # "idle" PROVE todo # <<>> /\ Head(todo) \in Files
BY HeadTailProperties DEF FInv, CurrentFile

\* After a file the command is done or has the next one.
LEMMA NextFileShape ==
    ASSUME FInv, pc # "idle", NextFile \/ \E status : Return(status)
    PROVE  pc' \in {"idle", "read"} /\ todo' \in Seq(Files) /\ (pc' = "idle" <=> todo' = <<>>)
<1>1. CASE \E status : Return(status)
  <2>1. <<>> \in Seq(Files)
    BY EmptySeq
  <2> QED
    BY <1>1, <2>1 DEF Return
<1>2. CASE NextFile /\ Len(todo) > 1
  <2>1. todo # <<>> /\ todo \in Seq(Files)
    BY HeadIsFile DEF FInv, CurrentFile
  <2>2. Tail(todo) \in Seq(Files) /\ Len(Tail(todo)) = Len(todo) - 1 /\ Len(todo) \in Nat
    BY <2>1, HeadTailProperties, LenProperties
  <2>3. Tail(todo) # <<>>
    <3>1. PICK rest, n, k : /\ rest = Tail(todo) /\ n = Len(rest)
                            /\ k = Len(todo) /\ n = k - 1 /\ k > 1 /\ k \in Nat
      BY <1>2, <2>2, Zenon
    <3>2. n # 0
      BY <3>1
    <3>3. Len(<<>>) = 0
      OBVIOUS
    <3> QED
      BY <3>1, <3>2, <3>3, Zenon
  <2> QED
    BY <1>2, <2>2, <2>3 DEF NextFile
<1>3. CASE NextFile /\ ~ (Len(todo) > 1)
  BY <1>1, <1>3 DEF NextFile
<1> QED
  BY <1>1, <1>2, <1>3

\* In the beginning nothing is lost.
LEMMA InitFInv == Init => FInv
<1> SUFFICES ASSUME Init PROVE FInv
  OBVIOUS
<1>1. pc = "idle" /\ todo = <<>> /\ \A f \in Files : ~ disk[f].lost
  BY DEF Init
<1>2. FilesShape
  <2>1. PICK content : disk = [f \in Files |-> [obj |-> content[f], refs |-> Refs[f], lost |-> FALSE]]
    <3>1. PICK s, fields :
             disk = [f \in Files |-> [obj |-> EncryptFields(Original[f], fields[f], KeyOf("encrypt", s)),
                                     refs |-> Refs[f], lost |-> FALSE]]
      BY DEF Init
    <3> DEFINE content == [f \in Files |-> EncryptFields(Original[f], fields[f], KeyOf("encrypt", s))]
    <3>2. \A f \in Files : content[f] = EncryptFields(Original[f], fields[f], KeyOf("encrypt", s))
      OBVIOUS
    <3> HIDE DEF content
    <3>3. disk = [f \in Files |-> [obj |-> content[f], refs |-> Refs[f], lost |-> FALSE]]
      BY <3>1, <3>2
    <3> QED
      BY <3>3
  <2>2. mem = [obj |-> Nothing, refs |-> <<>>, lost |-> FALSE]
    BY DEF Init
  <2> QED
    BY <2>1, <2>2 DEF FilesShape, FileRecord
<1>3. CurrentFile
  BY <1>1, EmptySeq DEF CurrentFile, InCommand
<1> QED
  BY <1>1, <1>2, <1>3 DEF FInv, MemoryComplete, LostOnlyByFailure, InCommand

\* A step that touches neither a file nor the damaged ones, and reads or ends.
LEMMA EndOfFileFInv ==
    ASSUME FInv, pc \notin {"idle", "print"}, NextFile \/ \E status : Return(status),
           UNCHANGED <<disk, damaged, op>>, FileRecord(mem')
    PROVE  FInv'
<1>1. pc' \in {"idle", "read"} /\ todo' \in Seq(Files) /\ (pc' = "idle" <=> todo' = <<>>)
  BY NextFileShape
<1>2. FilesShape' /\ CurrentFile' /\ MemoryComplete'
  BY <1>1 DEF FInv, FilesShape, FileRecord, CurrentFile, MemoryComplete, InCommand
<1>3. LostOnlyByFailure'
  BY DEF FInv, LostOnlyByFailure
<1> QED
  BY <1>2, <1>3 DEF FInv

\* A command starts with nothing lost but by damage.
LEMMA StartFInv ==
    ASSUME FInv, NEW command \in {"encrypt", "decrypt", "update"}, NEW args \in Seq(Files) \ {<<>>}, NEW s,
           Start(command, args, s)
    PROVE  FInv'
<1>1. /\ pc = "idle" /\ UNCHANGED <<disk, mem, damaged>>
      /\ op' = command
      /\ UNCHANGED <<pc, todo>> \/ (pc' = "read" /\ todo' = args)
  BY DEF Start, fileVars
<1>2. FilesShape' /\ CurrentFile'
  BY <1>1 DEF FInv, FilesShape, FileRecord, CurrentFile
<1>3. MemoryComplete' /\ LostOnlyByFailure'
  BY <1>1 DEF FInv, MemoryComplete, LostOnlyByFailure, InCommand
<1> QED
  BY <1>2, <1>3 DEF FInv

\* What is read is in memory as it is in the file.
LEMMA ReadFInv == ASSUME FInv, Read PROVE FInv'
<1>1. Head(todo) \in Files /\ todo # <<>>
  BY HeadIsFile DEF Read
<1>2. /\ mem' = disk[Head(todo)] /\ UNCHANGED <<disk, todo, damaged>> /\ pc = "read"
      /\ \/ op = "encrypt" /\ pc' = "encrypt"
         \/ op = "decrypt" /\ pc' = "decrypt"
         \/ op = "update" /\ pc' = "owner"
      /\ op' = op
  BY DEF Read, cmdVars, FInv, CurrentFile
<1> QED
  BY <1>1, <1>2 DEF FInv, FilesShape, FileRecord, CurrentFile, MemoryComplete, LostOnlyByFailure, InCommand

\* What is changed in memory stays as complete as it was.
LEMMA MemoryFInv ==
    ASSUME FInv, pc \in InCommand \ {"print"}, pc' \in InCommand \ {"print"},
           UNCHANGED <<disk, todo, damaged, op>>,
           mem' = mem \/ \E o : mem' = [mem EXCEPT !.obj = o]
    PROVE  FInv'
<1>1. FileRecord(mem') /\ mem'.lost = mem.lost
  BY DEF FInv, FilesShape, FileRecord
<1>2. FilesShape' /\ CurrentFile'
  BY <1>1 DEF FInv, FilesShape, FileRecord, CurrentFile, InCommand
<1>3. MemoryComplete' /\ LostOnlyByFailure'
  BY <1>1 DEF FInv, MemoryComplete, LostOnlyByFailure
<1> QED
  BY <1>2, <1>3 DEF FInv

\* The file that is truncated is the one that is printed next.
LEMMA TruncateFInv == ASSUME FInv, Truncate PROVE FInv'
<1>1. Head(todo) \in Files
  BY HeadIsFile DEF Truncate
<1>2. CASE Return("open") /\ UNCHANGED disk
  BY <1>2, EndOfFileFInv DEF Truncate, FInv, FilesShape, FileRecord, fileVars, cmdVars
<1>3. CASE /\ disk' = [disk EXCEPT ![Head(todo)] = [obj |-> Nothing, refs |-> <<>>, lost |-> TRUE]]
           /\ pc' = "print"
           /\ UNCHANGED <<todo, result>>
  <2>1. UNCHANGED <<mem, damaged, op, todo>> /\ pc = "truncate"
    BY <1>3 DEF Truncate, fileVars, cmdVars
  <2>2. FilesShape' /\ CurrentFile'
    BY <1>1, <1>3, <2>1 DEF FInv, FilesShape, FileRecord, CurrentFile, InCommand
  <2>3. MemoryComplete' /\ LostOnlyByFailure'
    BY <1>1, <1>3, <2>1 DEF FInv, FilesShape, MemoryComplete, LostOnlyByFailure, InCommand
  <2> QED
    BY <2>2, <2>3 DEF FInv
<1> QED
  BY <1>2, <1>3 DEF Truncate

\* However printing ends, the file is as complete as memory, or damaged.
LEMMA EndOfPrintFInv ==
    ASSUME FInv, pc = "print", NextFile \/ \E status : Return(status), UNCHANGED <<mem, op>>,
           \E content : /\ FileRecord(content)
                        /\ disk' = disk \/ disk' = [disk EXCEPT ![Head(todo)] = content],
           \/ disk' = [disk EXCEPT ![Head(todo)] = mem] /\ damaged' = damaged
           \/ damaged' = damaged \cup {Head(todo)}
    PROVE  FInv'
<1>1. pc' \in {"idle", "read"} /\ todo' \in Seq(Files) /\ (pc' = "idle" <=> todo' = <<>>)
  BY NextFileShape
<1>2. Head(todo) \in Files
  BY HeadIsFile
<1>3. FilesShape' /\ CurrentFile' /\ MemoryComplete'
  BY <1>1, <1>2 DEF FInv, FilesShape, FileRecord, CurrentFile, MemoryComplete, InCommand
<1>4. \A f \in Files \ {Head(todo)} : disk'[f] = disk[f]
  BY DEF FInv, FilesShape
<1>5. disk'[Head(todo)].lost => Head(todo) \in damaged'
  BY <1>2 DEF FInv, FilesShape, MemoryComplete, InCommand
<1>6. LostOnlyByFailure'
  BY <1>4, <1>5 DEF FInv, LostOnlyByFailure
<1> QED
  BY <1>3, <1>6 DEF FInv

\* Printing goes well or fails.
LEMMA PrintFInv == ASSUME FInv, PrintObj \/ PrintObjFails PROVE FInv'
<1> USE DEF fileVars, cmdVars
<1>1. CASE PrintObj
  BY <1>1, EndOfPrintFInv DEF PrintObj, FInv, FilesShape
<1>2. CASE PrintObjFails
  <2> DEFINE part == [obj |-> RemoveNestedField(mem.obj, <<"data">>), refs |-> <<>>, lost |-> TRUE]
  <2>1. FileRecord(part)
    BY DEF FileRecord
  <2>2. disk' \in {disk, [disk EXCEPT ![Head(todo)] = part]}
    BY <1>2 DEF PrintObjFails
  <2> HIDE DEF part
  <2> QED
    BY <1>2, <2>1, <2>2, EndOfPrintFInv DEF PrintObjFails
<1> QED
  BY <1>1, <1>2

\* A command that is killed damages at most the file it is printing.
LEMMA KilledFInv == ASSUME FInv, Killed PROVE FInv'
<1>1. UNCHANGED <<disk, mem, op>> /\ Return("killed") /\ pc # "idle" /\ FileRecord(mem')
  BY DEF Killed, fileVars, cmdVars, FInv, FilesShape, FileRecord
<1>2. CASE pc # "print"
  BY <1>1, <1>2, EndOfFileFInv DEF Killed
<1>3. CASE pc = "print"
  BY <1>1, <1>3, EndOfPrintFInv DEF Killed
<1> QED
  BY <1>2, <1>3
-----------------------------------------------------------------------------

\* Every step keeps the invariant.
LEMMA NextFInv == FInv /\ [Next]_vars => FInv'
<1> SUFFICES ASSUME FInv, [Next]_vars PROVE FInv'
  OBVIOUS
<1> USE DEF fileVars, cmdVars
<1>0. FileRecord(mem)
  BY DEF FInv, FilesShape
<1>1. CASE StartAny
  <2>1. PICK command \in {"encrypt", "decrypt", "update"}, args \in Seq(Files) \ {<<>>}, s \in Settings :
           Start(command, args, s)
    BY <1>1, FileCommandsAssumption DEF StartAny
  <2> QED
    BY <2>1, StartFInv
<1>2. CASE ReadFails
  BY <1>0, <1>2, EndOfFileFInv DEF ReadFails, FileRecord
<1>3. CASE Read
  BY <1>3, ReadFInv
<1>4. CASE Encrypt
  BY <1>4, MemoryFInv DEF Encrypt, InCommand
<1>5. CASE Decrypt
  BY <1>0, <1>5, MemoryFInv, EndOfFileFInv DEF Decrypt, InCommand, FileRecord
<1>6. CASE UpdateReference
  BY <1>6, MemoryFInv DEF UpdateReference, InCommand
<1>7. CASE UpdateFile
  BY <1>0, <1>7, MemoryFInv, EndOfFileFInv DEF UpdateFile, InCommand, FileRecord
<1>8. CASE Truncate
  BY <1>8, TruncateFInv
<1>9. CASE PrintObj \/ PrintObjFails
  BY <1>9, PrintFInv
<1>10. CASE Killed
  BY <1>10, KilledFInv
<1>11. CASE UNCHANGED vars
  BY <1>11 DEF vars, FInv, FilesShape, FileRecord, CurrentFile, MemoryComplete, LostOnlyByFailure
<1> QED
  BY <1>1, <1>2, <1>3, <1>4, <1>5, <1>6, <1>7, <1>8, <1>9, <1>10, <1>11 DEF Next

\* No error of a key, of a value or of another file costs any content: a file loses
\* a part only when the printing of this very file failed or was killed.
THEOREM NothingElseIsLost == Spec => []LostOnlyByFailure
<1>1. FInv => LostOnlyByFailure
  BY DEF FInv
<1> QED
  BY <1>1, InitFInv, NextFInv, PTL DEF Spec
-----------------------------------------------------------------------------
(***************************************************************************)
(* The objects are always such that maps and lists have children and       *)
(* scalars have none: encryption, decryption and a file that is printed in *)
(* part leave no value behind whose map is gone.                           *)
(***************************************************************************)

\* Each step of a command belongs to it.
OwnStep == /\ pc \in {"encrypt", "decrypt"} => op = pc
           /\ pc = "owner" => op = "update"

TInv ==
    /\ \A f \in Files : WellFormed(disk[f].obj)
    /\ WellFormed(mem.obj)
    /\ damaged \subseteq Files
    /\ OwnStep
    /\ result = [op |-> result.op, files |-> result.files, status |-> result.status]

\* An object that is empty is one.
LEMMA NothingIsWellFormed ==
    WellFormed(Nothing) /\ DOMAIN Nothing = {<<>>} /\ Nothing[<<>>] = Map
<1>1. DOMAIN Nothing = {<<>>} /\ Nothing[<<>>] = Map
  BY DEF Nothing
<1>2. <<>> \in Seq(STRING)
  BY EmptySeq
<1> QED
  BY <1>1, <1>2 DEF WellFormed, Kind, Map

\* What an export writes.
LEMMA ExportedFile ==
    ASSUME Init
    PROVE  \E s \in Settings, fields \in [Files -> ExportFields] :
              /\ KeyOf("encrypt", s) \notin AesKeys => \A f \in Files : fields[f] = <<>>
              /\ used = {s}
              /\ \A f \in Files : /\ disk[f].obj = EncryptFields(Original[f], fields[f], KeyOf("encrypt", s))
                                  /\ disk[f].refs = Refs[f] /\ ~ disk[f].lost
                                  /\ Len(fields[f]) \in Nat /\ DOMAIN fields[f] = 1 .. Len(fields[f])
<1>1. PICK s \in Settings, fields \in [Files -> ExportFields] :
         /\ KeyOf("encrypt", s) \notin AesKeys => \A f \in Files : fields[f] = <<>>
         /\ used = {s}
         /\ disk = [f \in Files |-> [obj |-> EncryptFields(Original[f], fields[f], KeyOf("encrypt", s)),
                                     refs |-> Refs[f], lost |-> FALSE]]
  BY DEF Init
<1>2. \A f \in Files : Len(fields[f]) \in Nat /\ DOMAIN fields[f] = 1 .. Len(fields[f])
  BY FileCommandsAssumption, LenProperties
<1> QED
  BY <1>1, <1>2

\* SecretFields are two fields.
LEMMA SecretFieldsShape ==
    /\ Len(SecretFields) = 2 /\ DOMAIN SecretFields = 1 .. 2
    /\ SecretFields[1] = <<"data">> /\ SecretFields[2] = <<"stringData">>
BY DEF SecretFields

\* The fields of a Secret are no positions of a list.
LEMMA DataIsNoPosition == "data" \notin Positions /\ "stringData" \notin Positions
BY FileCommandsAssumption

\* What a step makes of the object in memory.
LEMMA EncryptInMemory ==
    ASSUME FInv, Encrypt
    PROVE  /\ FileRecord(mem') /\ mem'.refs = mem.refs /\ mem'.lost = mem.lost
           /\ mem'.obj = IF mem.obj[<<"kind">>].text # {"Secret"} THEN mem.obj
                         ELSE EncryptFields(mem.obj, SecretFields, key)
<1>1. mem' = IF mem.obj[<<"kind">>].text # {"Secret"} THEN mem
             ELSE [mem EXCEPT !.obj = EncryptFields(mem.obj, SecretFields, key)]
  BY DEF Encrypt, SecretFields
<1> QED
  BY <1>1 DEF FInv, FilesShape, FileRecord

LEMMA DecryptInMemory ==
    ASSUME FInv, Decrypt
    PROVE  \/ DecryptFails(mem.obj, key) /\ Return("decrypt") /\ mem' = mem
           \/ /\ ~ DecryptFails(mem.obj, key) /\ pc' = "truncate" /\ UNCHANGED <<todo, result>>
              /\ FileRecord(mem') /\ mem'.refs = mem.refs /\ mem'.lost = mem.lost
              /\ mem'.obj = DecryptFields(mem.obj)
<1>1. CASE DecryptFails(mem.obj, key)
  BY <1>1 DEF Decrypt
<1>2. CASE ~ DecryptFails(mem.obj, key)
  <2>1. mem' = [mem EXCEPT !.obj = DecryptFields(mem.obj)] /\ pc' = "truncate" /\ UNCHANGED <<todo, result>>
    BY <1>2 DEF Decrypt
  <2> QED
    BY <1>2, <2>1 DEF FInv, FilesShape, FileRecord
<1> QED
  BY <1>1, <1>2

\* What is left of a file that was printed in part.
PartOfMemory == [obj |-> RemoveNestedField(mem.obj, <<"data">>), refs |-> <<>>, lost |-> TRUE]

\* What a step makes of the files, and where: at the current file, if anywhere.
LEMMA DiskSteps ==
    ASSUME FInv, [Next]_vars
    PROVE  \/ disk' = disk
           \/ /\ pc \in {"truncate", "print"} /\ Head(todo) \in Files
              /\ \/ /\ Truncate /\ pc' = "print" /\ todo' = todo
                    /\ disk'[Head(todo)] = [obj |-> Nothing, refs |-> <<>>, lost |-> TRUE]
                 \/ PrintObj /\ disk'[Head(todo)] = mem
                 \/ PrintObjFails /\ disk'[Head(todo)] = PartOfMemory
              /\ \A f \in Files \ {Head(todo)} : disk'[f] = disk[f]
<1> USE DEF fileVars, cmdVars
<1>1. CASE Truncate
  <2>1. Head(todo) \in Files /\ pc = "truncate"
    BY <1>1, HeadIsFile DEF Truncate
  <2> QED
    BY <1>1, <2>1 DEF Truncate, FInv, FilesShape
<1>2. CASE PrintObj
  <2>1. Head(todo) \in Files /\ pc = "print"
    BY <1>2, HeadIsFile DEF PrintObj
  <2> QED
    BY <1>2, <2>1 DEF PrintObj, FInv, FilesShape
<1>3. CASE PrintObjFails
  <2>1. Head(todo) \in Files /\ pc = "print"
    BY <1>3, HeadIsFile DEF PrintObjFails
  <2>2. disk' = disk \/ disk' = [disk EXCEPT ![Head(todo)] = PartOfMemory]
    BY <1>3 DEF PrintObjFails, PartOfMemory
  <2> QED
    BY <1>3, <2>1, <2>2 DEF FInv, FilesShape
<1>4. CASE StartAny
  BY <1>4 DEF StartAny, Start
<1> QED
  BY <1>1, <1>2, <1>3, <1>4 DEF Next, ReadFails, Read, Encrypt, Decrypt, UpdateReference, UpdateFile,
     Killed, vars

\* A step that leads into the work on a file reads it, or goes on with it.
LEMMA StaysInFile ==
    ASSUME FInv, [Next]_vars, pc' \in InCommand
    PROVE  /\ UNCHANGED <<todo, op, key, used, result>>
           /\ Head(todo) \in Files
           /\ \/ pc = "read" /\ Read
              \/ pc \in InCommand /\ (mem' = mem \/ Encrypt \/ Decrypt)
<1> USE DEF fileVars, cmdVars, InCommand
<1>1. CASE StartAny
  BY <1>1 DEF StartAny, Start, FInv, CurrentFile
<1>2. CASE Read
  BY <1>2, HeadIsFile DEF Read
<1>3. CASE ReadFails \/ PrintObj \/ PrintObjFails \/ Killed
  BY <1>3, NextFileShape DEF ReadFails, PrintObj, PrintObjFails, Killed
<1>4. CASE Encrypt
  BY <1>4, HeadIsFile DEF Encrypt
<1>5. CASE Decrypt
  BY <1>5, HeadIsFile DEF Decrypt, Return
<1>6. CASE UpdateReference
  BY <1>6, HeadIsFile DEF UpdateReference
<1>7. CASE UpdateFile
  BY <1>7, HeadIsFile, NextFileShape DEF UpdateFile
<1>8. CASE Truncate
  BY <1>8, HeadIsFile DEF Truncate, Return
<1>9. CASE UNCHANGED vars
  BY <1>9, HeadIsFile DEF vars
<1> QED
  BY <1>1, <1>2, <1>3, <1>4, <1>5, <1>6, <1>7, <1>8, <1>9 DEF Next

\* Memory changes by reading a file, and by the two transformations.
LEMMA MemorySteps ==
    ASSUME FInv, [Next]_vars
    PROVE  mem' = mem \/ Encrypt \/ Decrypt \/ (Read /\ mem' = disk[Head(todo)] /\ Head(todo) \in Files)
<1>1. Read => Head(todo) \in Files /\ mem' = disk[Head(todo)]
  BY HeadIsFile DEF Read
<1> QED
  BY <1>1 DEF Next, StartAny, Start, ReadFails, UpdateReference, UpdateFile, Truncate, PrintObj,
     PrintObjFails, Killed, vars, fileVars
-----------------------------------------------------------------------------

LEMMA InitTInv == Init => TInv
<1> SUFFICES ASSUME Init PROVE TInv
  OBVIOUS
<1>1. PICK s \in Settings, fields \in [Files -> ExportFields] :
         \A f \in Files : /\ disk[f].obj = EncryptFields(Original[f], fields[f], KeyOf("encrypt", s))
                          /\ Len(fields[f]) \in Nat /\ DOMAIN fields[f] = 1 .. Len(fields[f])
  BY ExportedFile
<1>2. ASSUME NEW f \in Files PROVE WellFormed(disk[f].obj)
  <2>1. /\ WellFormed(Original[f]) /\ disk[f].obj = EncryptFields(Original[f], fields[f], KeyOf("encrypt", s))
        /\ Len(fields[f]) \in Nat /\ DOMAIN fields[f] = 1 .. Len(fields[f])
    BY <1>1, FileCommandsAssumption
  <2> QED
    BY <2>1, EncryptFieldsResult DEF EncryptsTo
<1>3. mem.obj = Nothing /\ damaged = {} /\ pc = "idle" /\ result = None
  BY DEF Init
<1> QED
  BY <1>2, <1>3, NothingIsWellFormed DEF TInv, OwnStep, None

LEMMA NextTInv == FInv /\ TInv /\ [Next]_vars => TInv'
<1> SUFFICES ASSUME FInv, TInv, [Next]_vars PROVE TInv'
  OBVIOUS
<1> USE DEF fileVars, cmdVars
<1>1. WellFormed(mem'.obj)
  <2>1. CASE Encrypt
    <3>1. EncryptsTo(mem.obj, EncryptFields(mem.obj, SecretFields, key), key)
      BY SecretFieldsShape, EncryptFieldsResult DEF TInv
    <3> QED
      BY <2>1, <3>1, EncryptInMemory DEF EncryptsTo, TInv
  <2>2. CASE Decrypt
    BY <2>2, DecryptInMemory, DecryptFieldsResult DEF TInv
  <2> QED
    BY <2>1, <2>2, MemorySteps DEF TInv
<1>2. ASSUME NEW f \in Files PROVE WellFormed(disk'[f].obj)
  <2>1. WellFormed(PartOfMemory.obj) /\ WellFormed(Nothing)
    BY NothingIsWellFormed, RemoveKeepsWellFormed DEF TInv, PartOfMemory
  <2> QED
    BY <2>1, DiskSteps DEF TInv
<1>3. damaged' \subseteq Files
  <2>1. CASE PrintObjFails \/ Killed
    BY <2>1, HeadIsFile DEF TInv, PrintObjFails, Killed
  <2>2. CASE ~ (PrintObjFails \/ Killed)
    <3>1. damaged' = damaged
      BY <2>2 DEF Next, StartAny, Start, ReadFails, Read, Encrypt, Decrypt, UpdateReference, UpdateFile,
         Truncate, PrintObj, vars
    <3> QED
      BY <3>1 DEF TInv
  <2> QED
    BY <2>1, <2>2
<1>4. OwnStep'
  <2>1. CASE pc' \notin InCommand
    BY <2>1 DEF OwnStep, InCommand
  <2>2. CASE pc' \in InCommand /\ Read
    BY <2>2 DEF Read, OwnStep, FInv, CurrentFile
  <2>3. CASE pc' \in InCommand /\ pc \in InCommand
    <3>1. pc' \in {"truncate", "print"} \/ pc' = pc
      BY <2>3 DEF Next, StartAny, Start, ReadFails, Read, Encrypt, Decrypt, UpdateReference, UpdateFile,
         Truncate, PrintObj, PrintObjFails, Killed, Return, NextFile, vars, InCommand
    <3> QED
      BY <2>3, <3>1, StaysInFile DEF TInv, OwnStep
  <2> QED
    BY <2>1, <2>2, <2>3, StaysInFile
<1>5. (result = [op |-> result.op, files |-> result.files, status |-> result.status])'
  <2>1. \/ result' = result
        \/ \E status : Return(status)
        \/ StartAny
    BY DEF Next, ReadFails, Read, Encrypt, Decrypt, UpdateReference, UpdateFile, NextFile,
       Truncate, PrintObj, PrintObjFails, Killed, vars
  <2>2. CASE StartAny
    BY <2>2 DEF StartAny, Start
  <2> QED
    BY <2>1, <2>2 DEF TInv, Return
<1> QED
  BY <1>1, <1>2, <1>3, <1>4, <1>5 DEF TInv

\* Whatever commands are called, fail and are killed: each file and the memory hold an
\* object in which no value is without the maps that lead to it.
THEOREM FilesTypeCorrect == Spec => []FilesTypeOK
<1>1. FInv /\ TInv => FilesTypeOK
  BY DEF FInv, CurrentFile, TInv, FilesTypeOK, InCommand
<1> QED
  BY <1>1, InitFInv, NextFInv, InitTInv, NextTInv, PTL DEF Spec
-----------------------------------------------------------------------------
(***************************************************************************)
(* The keys.  No file is ever encrypted with a key that no setting stands  *)
(* for, and a command has the key of one of them; with one setting that    *)
(* has one key, decrypt meets no other.                                    *)
(***************************************************************************)

KnownKeys == ({KeyOf("encrypt", s) : s \in used} \cap AesKeys) \cup {"none"}
HasKnownKeys(o) == \A p \in DOMAIN o : o[p].key \in KnownKeys

OneSetting == \A s \in used : used = {s} /\ (s.env # "none" => s.secret \in {"none", s.env})

KInv ==
    /\ \A f \in Files : HasKnownKeys(disk[f].obj)
    /\ HasKnownKeys(mem.obj)
    /\ pc # "idle" /\ op # "update" => key \in AesKeys /\ \E s \in used : key = KeyOf(op, s)
    /\ NeverRefused

LEMMA InitKInv == Init => KInv
<1> SUFFICES ASSUME Init PROVE KInv
  OBVIOUS
<1>1. PICK s \in Settings, fields \in [Files -> ExportFields] :
         /\ KeyOf("encrypt", s) \notin AesKeys => \A f \in Files : fields[f] = <<>>
         /\ used = {s}
         /\ \A f \in Files : /\ disk[f].obj = EncryptFields(Original[f], fields[f], KeyOf("encrypt", s))
                             /\ Len(fields[f]) \in Nat /\ DOMAIN fields[f] = 1 .. Len(fields[f])
  BY ExportedFile
<1>2. ASSUME NEW f \in Files PROVE HasKnownKeys(disk[f].obj)
  <2>0. /\ WellFormed(Original[f]) /\ disk[f].obj = EncryptFields(Original[f], fields[f], KeyOf("encrypt", s))
        /\ Len(fields[f]) \in Nat /\ DOMAIN fields[f] = 1 .. Len(fields[f])
    BY <1>1, FileCommandsAssumption
  <2>1. /\ EncryptsTo(Original[f], disk[f].obj, KeyOf("encrypt", s))
        /\ \A p \in DOMAIN disk[f].obj :
              disk[f].obj[p] # Original[f][p] =>
                  \E i \in DOMAIN fields[f] : p \in Transformed(Original[f], fields[f][i])
    BY <2>0, EncryptFieldsResult
  <2>2. ASSUME NEW p \in DOMAIN disk[f].obj
        PROVE  disk[f].obj[p].key \in ({KeyOf("encrypt", s)} \cap AesKeys) \cup {"none"}
    <3>1. Original[f][p].key = "none" /\ disk[f].obj[p].key \in {"none", KeyOf("encrypt", s)}
      BY <2>1, FileCommandsAssumption DEF EncryptsTo
    <3>2. fields[f] = <<>> => DOMAIN fields[f] = {}
      OBVIOUS
    <3> QED
      BY <1>1, <2>1, <3>1, <3>2
  <2> QED
    BY <1>1, <2>2 DEF HasKnownKeys, KnownKeys
<1>3. mem.obj = Nothing /\ pc = "idle" /\ result = None
  BY DEF Init
<1> QED
  BY <1>2, <1>3, NothingIsWellFormed DEF KInv, HasKnownKeys, KnownKeys, Map, NeverRefused, None

\* The keys that are known stay known.
LEMMA KeysStayKnown ==
    ASSUME [Next]_vars
    PROVE  used \subseteq used' /\ \A o : HasKnownKeys(o) => HasKnownKeys(o)'
<1>1. used \subseteq used'
  BY DEF Next, StartAny, Start, ReadFails, Read, Encrypt, Decrypt, UpdateReference, UpdateFile,
     Truncate, PrintObj, PrintObjFails, Killed, vars, cmdVars
<1> QED
  BY <1>1 DEF HasKnownKeys, KnownKeys

\* What one setting encrypts is decrypted with the key that decrypt finds with it.
LEMMA OneSettingOneKey ==
    ASSUME OneSetting, NEW s \in used
    PROVE  KnownKeys \subseteq {KeyOf("decrypt", s), "none"}
<1>1. used = {s} /\ (s.env # "none" => s.secret \in {"none", s.env})
  BY DEF OneSetting
<1>2. KeyOf("encrypt", s) \in AesKeys => KeyOf("encrypt", s) = KeyOf("decrypt", s)
  BY <1>1, FileCommandsAssumption DEF KeyOf, EvaluateAesKey, ConfigRefused
<1> QED
  BY <1>1, <1>2 DEF KnownKeys

LEMMA NextKInv == FInv /\ TInv /\ KInv /\ [Next]_vars => KInv'
<1> SUFFICES ASSUME FInv, TInv, KInv, [Next]_vars PROVE KInv'
  OBVIOUS
<1> USE DEF fileVars, cmdVars
<1>1. HasKnownKeys(mem'.obj)
  <2>1. CASE Encrypt
    <3>1. pc = "encrypt" /\ op = "encrypt"
      BY <2>1 DEF Encrypt, TInv, OwnStep
    <3>2. key \in KnownKeys
      BY <3>1 DEF KInv, KnownKeys
    <3>3. EncryptsTo(mem.obj, EncryptFields(mem.obj, SecretFields, key), key)
      BY SecretFieldsShape, EncryptFieldsResult DEF TInv
    <3>4. HasKnownKeys(EncryptFields(mem.obj, SecretFields, key))
      BY <3>2, <3>3 DEF EncryptsTo, KInv, HasKnownKeys
    <3> QED
      BY <2>1, <3>4, EncryptInMemory DEF KInv
  <2>2. CASE Decrypt
    <3>1. HasKnownKeys(DecryptFields(mem.obj))
      BY DecryptFieldsResult DEF TInv, KInv, HasKnownKeys, KnownKeys
    <3> QED
      BY <2>2, <3>1, DecryptInMemory DEF KInv
  <2> QED
    BY <2>1, <2>2, MemorySteps DEF KInv
<1>2. ASSUME NEW f \in Files PROVE HasKnownKeys(disk'[f].obj)
  <2>1. HasKnownKeys(PartOfMemory.obj) /\ HasKnownKeys(Nothing)
    <3>1. HasKnownKeys(PartOfMemory.obj)
      BY RemoveKeepsWellFormed DEF TInv, KInv, HasKnownKeys, PartOfMemory
    <3> QED
      BY <3>1, NothingIsWellFormed DEF HasKnownKeys, KnownKeys, Map
  <2> QED
    BY <2>1, DiskSteps DEF KInv
<1>3. HasKnownKeys(mem.obj)' /\ \A f \in Files : HasKnownKeys(disk[f].obj)'
  BY <1>1, <1>2, KeysStayKnown DEF HasKnownKeys, KnownKeys
<1>4. ASSUME pc' # "idle", op' # "update"
      PROVE  key' \in AesKeys /\ \E s \in used' : key' = KeyOf(op', s)
  <2>1. CASE StartAny
    BY <1>4, <2>1 DEF StartAny, Start, FInv, CurrentFile
  <2>2. CASE ~ StartAny
    <3>1. UNCHANGED <<op, key, used>> /\ pc # "idle"
      BY <1>4, <2>2 DEF Next, ReadFails, Read, Encrypt, Decrypt, UpdateReference, UpdateFile,
         Truncate, PrintObj, PrintObjFails, Killed, vars
    <3> QED
      BY <1>4, <3>1 DEF KInv
  <2> QED
    BY <2>1, <2>2
<1>5. NeverRefused'
  <2>1. CASE StartAny
    BY <2>1 DEF StartAny, Start, NeverRefused
  <2>2. CASE Decrypt
    <3>1. UNCHANGED used /\ pc = "decrypt" /\ op = "decrypt"
      BY <2>2 DEF Decrypt, TInv, OwnStep
    <3>2. CASE OneSetting
      <4>1. PICK s \in used : key = KeyOf("decrypt", s)
        BY <3>1 DEF KInv
      <4>2. ~ DecryptFails(mem.obj, key)
        BY <3>2, <4>1, OneSettingOneKey DEF DecryptFails, Decryptable, KInv, HasKnownKeys
      <4>3. result' = result
        BY <2>2, <4>2, DecryptInMemory
      <4> QED
        BY <3>1, <4>3 DEF KInv, NeverRefused
    <3>3. CASE ~ OneSetting
      BY <3>1, <3>3 DEF NeverRefused, OneSetting
    <3> QED
      BY <3>2, <3>3
  <2>3. CASE ~ StartAny /\ ~ Decrypt
    <3>1. UNCHANGED used
      BY <2>3 DEF Next, ReadFails, Read, Encrypt, UpdateReference, UpdateFile,
         Truncate, PrintObj, PrintObjFails, Killed, vars
    <3>2. result' = result \/ \E status \in {"ok", "read", "open", "print", "killed"} :
                                result' = [result EXCEPT !.status = status]
      BY <2>3 DEF Next, ReadFails, Read, Encrypt, UpdateReference, UpdateFile, Return, NextFile,
         Truncate, PrintObj, PrintObjFails, Killed, vars
    <3>3. result'.status = "decrypt" => result.status = "decrypt"
      BY <3>2 DEF TInv
    <3> QED
      BY <3>1, <3>3 DEF KInv, NeverRefused
  <2> QED
    BY <2>1, <2>2, <2>3
<1> QED
  BY <1>3, <1>4, <1>5 DEF KInv

\* As long as all commands have the settings of the export, with one key in them, decrypt
\* accepts what was encrypted, after any number of calls that failed half-way.
THEOREM DecryptNeverRefused == Spec => []NeverRefused
<1>1. KInv => NeverRefused
  BY DEF KInv
<1> QED
  BY <1>1, InitFInv, NextFInv, InitTInv, NextTInv, InitKInv, NextKInv, PTL DEF Spec
-----------------------------------------------------------------------------
(***************************************************************************)
(* The content.  Encryption replaces a map or a list by its printed text,  *)
(* and no decryption gives its values back; so the values that are         *)
(* encrypted must be scalars, as the values of a Secret are.  Then each    *)
(* file, and the file in memory, is a part of the original with the texts  *)
(* it had: the whole of it unless something was lost.                      *)
(***************************************************************************)

IsPartOf(f, o) ==
    /\ DOMAIN o \subseteq DOMAIN Original[f]
    /\ \A p \in DOMAIN o :
          /\ o[p].text = Original[f][p].text
          /\ IsScalar(Original[f][p]) => IsScalar(o[p])
          /\ ~ IsScalar(Original[f][p]) => o[p] = Original[f][p]
    /\ o = Nothing \/ <<"kind">> \in DOMAIN o

IsAllOf(f, o) == DOMAIN o = DOMAIN Original[f]

CInv ==
    /\ \A f \in Files : IsPartOf(f, disk[f].obj) /\ (~ disk[f].lost => IsAllOf(f, disk[f].obj))
    /\ pc \in InCommand => /\ IsPartOf(Head(todo), mem.obj) /\ mem.obj # Nothing
                           /\ (~ mem.lost => IsAllOf(Head(todo), mem.obj))

\* Nothing and the original are parts of the original.
LEMMA EndsOfParts == ASSUME NEW f \in Files PROVE IsPartOf(f, Nothing) /\ IsPartOf(f, Original[f])
<1>1. /\ WellFormed(Original[f]) /\ <<"kind">> \in DOMAIN Original[f]
      /\ \A p \in DOMAIN Original[f] : Original[f][p].key = "none"
  BY FileCommandsAssumption
<1>2. <<>> \in DOMAIN Original[f] /\ Original[f][<<>>].kind = "map"
  BY <1>1 DEF WellFormed, Kind
<1>3. Original[f][<<>>] = [kind |-> "map", text |-> {}, key |-> "none"]
  BY <1>1, <1>2 DEF WellFormed
<1>4. IsPartOf(f, Nothing)
  BY <1>2, <1>3, NothingIsWellFormed DEF IsPartOf, Map, IsScalar
<1> QED
  BY <1>1, <1>4 DEF IsPartOf

\* The targets of a field in a part of the original are scalars if they were.
LEMMA PartHasScalarTargets ==
    ASSUME NEW f \in Files, NEW o, WellFormed(o), IsPartOf(f, o), NEW fields,
           ScalarTargets(Original[f], fields)
    PROVE  ScalarTargets(o, fields)
<1>1. SUFFICES ASSUME NEW i \in DOMAIN fields, NEW t \in Transformed(o, fields[i]) PROVE IsScalar(o[t])
  BY DEF ScalarTargets
<1>2. t \in DOMAIN o \ {<<>>} /\ t \in DOMAIN Original[f]
  BY TargetsAreThere DEF IsPartOf
<1>3. CASE o[t].kind = "string"
  BY <1>3 DEF IsScalar
<1>4. CASE Front(t) \in ReachedBy(o, fields[i]) /\ o[Front(t)].kind = "map"
  <2>1. Front(t) \in DOMAIN o /\ Front(t) \in DOMAIN Original[f]
    BY <1>2, AboveIsThere DEF IsPartOf
  <2>2. Original[f][Front(t)].kind = "map"
    BY <1>4, <2>1 DEF IsPartOf, IsScalar
  <2>3. Front(t) \in ReachedBy(Original[f], fields[i])
    BY <1>4, <2>1 DEF ReachedBy, Reaches
  <2>4. t \in Transformed(Original[f], fields[i])
    BY <1>2, <2>2, <2>3 DEF Transformed
  <2> QED
    BY <1>2, <2>4 DEF ScalarTargets, IsPartOf
<1> QED
  BY <1>3, <1>4 DEF Transformed

\* Encryption and decryption keep a part of the original, and all of it.
LEMMA EncryptKeepsPart ==
    ASSUME NEW f \in Files, NEW o, WellFormed(o), IsPartOf(f, o), o # Nothing,
           NEW fields, Len(fields) \in Nat, DOMAIN fields = 1 .. Len(fields), NEW aesKey,
           ScalarTargets(Original[f], fields)
    PROVE  LET r == EncryptFields(o, fields, aesKey) IN
           /\ IsPartOf(f, r) /\ DOMAIN r = DOMAIN o /\ r # Nothing
           /\ \A p \in DOMAIN o : ~ IsScalar(o[p]) => r[p] = o[p]
<1> DEFINE r == EncryptFields(o, fields, aesKey)
<1>1. ScalarTargets(o, fields)
  BY PartHasScalarTargets
<1>2. /\ EncryptsTo(o, r, aesKey) /\ DOMAIN r = DOMAIN o
      /\ \A p \in DOMAIN r : ~ IsScalar(o[p]) => r[p] = o[p]
  BY <1>1, EncryptFieldsResult
<1> HIDE DEF r
<1>3. <<"kind">> \in DOMAIN o /\ r # Nothing
  BY <1>2, NothingIsWellFormed DEF IsPartOf
<1>4. ASSUME NEW p \in DOMAIN r
      PROVE  /\ r[p].text = Original[f][p].text
             /\ IsScalar(Original[f][p]) => IsScalar(r[p])
             /\ ~ IsScalar(Original[f][p]) => r[p] = Original[f][p]
  BY <1>2 DEF EncryptsTo, IsPartOf
<1> QED
  BY <1>2, <1>3, <1>4 DEF IsPartOf, r

LEMMA DecryptKeepsPart ==
    ASSUME NEW f \in Files, NEW o, WellFormed(o), IsPartOf(f, o), o # Nothing
    PROVE  IsPartOf(f, DecryptFields(o)) /\ DOMAIN DecryptFields(o) = DOMAIN o /\ DecryptFields(o) # Nothing
<1> DEFINE r == DecryptFields(o)
<1>1. /\ DOMAIN r = DOMAIN o
      /\ \A p \in DOMAIN o : /\ r[p].text = o[p].text
                             /\ IsScalar(o[p]) => IsScalar(r[p])
                             /\ ~ IsScalar(o[p]) => r[p] = o[p]
  BY DecryptFieldsResult
<1> HIDE DEF r
<1>2. <<"kind">> \in DOMAIN o /\ r # Nothing
  BY <1>1, NothingIsWellFormed DEF IsPartOf
<1> QED
  BY <1>1, <1>2 DEF IsPartOf, r

\* A field that is removed leaves the kind.
LEMMA KindStays ==
    ASSUME NEW f \in Files, NEW o, WellFormed(o), IsPartOf(f, o), o # Nothing
    PROVE  IsPartOf(f, RemoveNestedField(o, <<"data">>))
<1> DEFINE r == RemoveNestedField(o, <<"data">>)
<1>1. /\ DOMAIN r \subseteq DOMAIN o /\ \A q \in DOMAIN r : r[q] = o[q]
      /\ \A q \in DOMAIN o : q \in DOMAIN r <=> ~ \E p \in ReachedBy(o, <<"data">>) : IsPrefix(p, q)
  BY RemoveKeepsWellFormed
<1>2. "data" \notin Positions
  BY DataIsNoPosition
<1>3. ReachedBy(o, <<"data">>) \subseteq {<<"data">>}
  BY <1>2, TopFieldIsReached
<1> HIDE DEF r
<1>4. <<"kind">> \in DOMAIN o
  BY DEF IsPartOf
<1>5. ~ IsPrefix(<<"data">>, <<"kind">>)
  BY DEF IsPrefix
<1>6. <<"kind">> \in DOMAIN r
  BY <1>1, <1>3, <1>4, <1>5
<1> QED
  BY <1>1, <1>6 DEF IsPartOf, r
-----------------------------------------------------------------------------

LEMMA InitCInv == ASSUME ValuesAreScalars, Init PROVE CInv
<1>1. PICK s \in Settings, fields \in [Files -> ExportFields] :
         \A f \in Files : /\ disk[f].obj = EncryptFields(Original[f], fields[f], KeyOf("encrypt", s))
                          /\ Len(fields[f]) \in Nat /\ DOMAIN fields[f] = 1 .. Len(fields[f])
  BY ExportedFile
<1>2. ASSUME NEW f \in Files PROVE IsPartOf(f, disk[f].obj) /\ IsAllOf(f, disk[f].obj)
  <2>1. WellFormed(Original[f]) /\ IsPartOf(f, Original[f]) /\ Original[f] # Nothing
    <3>1. WellFormed(Original[f]) /\ <<"kind">> \in DOMAIN Original[f]
      BY FileCommandsAssumption
    <3>2. <<"kind">> \notin DOMAIN Nothing
      BY NothingIsWellFormed
    <3> QED
      BY <3>1, <3>2, EndsOfParts
  <2>2. ScalarTargets(Original[f], fields[f])
    BY DEF ValuesAreScalars
  <2> QED
    BY <1>1, <2>1, <2>2, EncryptKeepsPart DEF IsAllOf
<1>3. pc = "idle"
  BY DEF Init
<1> QED
  BY <1>2, <1>3 DEF CInv, InCommand

\* The current file in memory after a step that stays in it.
LEMMA NextMemoryContent ==
    ASSUME ValuesAreScalars, FInv, TInv, CInv, [Next]_vars, pc' \in InCommand
    PROVE  /\ IsPartOf(Head(todo), mem'.obj) /\ mem'.obj # Nothing
           /\ (~ mem'.lost => IsAllOf(Head(todo), mem'.obj))
<1>1. CASE Read
  <2>1. mem' = disk[Head(todo)] /\ disk[Head(todo)].obj # Nothing /\ Head(todo) \in Files
    BY <1>1, HeadIsFile DEF Read
  <2> QED
    BY <2>1 DEF CInv
<1>2. CASE pc \in InCommand /\ mem' = mem
  BY <1>2 DEF CInv
<1>3. CASE pc \in InCommand /\ Encrypt
  <2>1. /\ Head(todo) \in Files /\ IsPartOf(Head(todo), mem.obj) /\ mem.obj # Nothing
        /\ <<"kind">> \in DOMAIN mem.obj /\ WellFormed(mem.obj)
        /\ mem.obj[<<"kind">>].text = Original[Head(todo)][<<"kind">>].text
    BY <1>3, StaysInFile DEF CInv, IsPartOf, TInv
  <2>2. CASE ~ IsSecret(Head(todo))
    BY <1>3, <2>1, <2>2, EncryptInMemory DEF CInv, IsSecret
  <2>3. CASE IsSecret(Head(todo))
    <3>1. mem'.obj = EncryptFields(mem.obj, SecretFields, key) /\ mem'.lost = mem.lost
      BY <1>3, <2>1, <2>3, EncryptInMemory DEF IsSecret
    <3>2. ScalarTargets(Original[Head(todo)], SecretFields)
      BY <2>1, <2>3 DEF ValuesAreScalars
    <3>3. /\ IsPartOf(Head(todo), mem'.obj) /\ DOMAIN mem'.obj = DOMAIN mem.obj
          /\ mem'.obj # Nothing
      <4>1. Len(SecretFields) \in Nat /\ DOMAIN SecretFields = 1 .. Len(SecretFields)
        BY SecretFieldsShape
      <4>2. /\ IsPartOf(Head(todo), EncryptFields(mem.obj, SecretFields, key))
            /\ DOMAIN EncryptFields(mem.obj, SecretFields, key) = DOMAIN mem.obj
            /\ EncryptFields(mem.obj, SecretFields, key) # Nothing
        BY <2>1, <3>2, <4>1, EncryptKeepsPart
      <4> QED
        BY <3>1, <4>2
    <3> QED
      BY <1>3, <3>1, <3>3 DEF CInv, IsAllOf
  <2> QED
    BY <2>2, <2>3
<1>4. CASE pc \in InCommand /\ Decrypt
  <2>1. Head(todo) \in Files /\ IsPartOf(Head(todo), mem.obj) /\ mem.obj # Nothing /\ WellFormed(mem.obj)
    BY <1>4, StaysInFile DEF CInv, TInv
  <2>2. CASE mem' = mem
    BY <1>4, <2>2 DEF CInv
  <2>3. CASE mem'.obj = DecryptFields(mem.obj) /\ mem'.lost = mem.lost
    BY <1>4, <2>1, <2>3, DecryptKeepsPart DEF CInv, IsAllOf
  <2> QED
    BY <1>4, <2>2, <2>3, DecryptInMemory
<1> QED
  BY <1>1, <1>2, <1>3, <1>4, StaysInFile

LEMMA NextCInv == ASSUME ValuesAreScalars PROVE FInv /\ TInv /\ CInv /\ [Next]_vars => CInv'
<1> SUFFICES ASSUME FInv, TInv, CInv, [Next]_vars PROVE CInv'
  OBVIOUS
<1>1. ASSUME pc' \in InCommand
      PROVE  /\ IsPartOf(Head(todo'), mem'.obj) /\ mem'.obj # Nothing
             /\ (~ mem'.lost => IsAllOf(Head(todo'), mem'.obj))
  BY <1>1, StaysInFile, NextMemoryContent
<1>2. ASSUME NEW f \in Files
      PROVE  IsPartOf(f, disk'[f].obj) /\ (~ disk'[f].lost => IsAllOf(f, disk'[f].obj))
  <2>1. CASE disk'[f] = disk[f]
    BY <2>1 DEF CInv
  <2>2. CASE disk'[f] = [obj |-> Nothing, refs |-> <<>>, lost |-> TRUE]
    BY <2>2, EndsOfParts
  <2>3. CASE disk'[f] = mem /\ f = Head(todo) /\ pc \in InCommand
    BY <2>3 DEF CInv
  <2>4. CASE disk'[f] = PartOfMemory /\ f = Head(todo) /\ pc \in InCommand
    <3>1. IsPartOf(f, PartOfMemory.obj) /\ PartOfMemory.lost
      BY <2>4, KindStays DEF CInv, TInv, PartOfMemory
    <3> QED
      BY <2>4, <3>1
  <2> QED
    BY <2>1, <2>2, <2>3, <2>4, DiskSteps DEF InCommand
<1> QED
  BY <1>1, <1>2 DEF CInv, InCommand

\* When the values that are encrypted are scalars: what is in a file can be brought back
\* from it unless a part of the file was lost, whatever commands are called, with
\* whatever keys, fail and are killed.
THEOREM ContentIsKept == ASSUME ValuesAreScalars PROVE Spec => []ContentKept
<1>1. CInv => ContentKept
  BY DEF CInv, ContentKept, IsAllOf, IsPartOf
<1>2. Init => CInv
  BY InitCInv
<1> QED
  BY <1>1, <1>2, InitFInv, NextFInv, InitTInv, NextTInv, NextCInv, PTL DEF Spec
-----------------------------------------------------------------------------
(***************************************************************************)
(* One key for each file, and commands that do all of their work.  The     *)
(* commands encrypt data and stringData of Secrets with whatever key they  *)
(* are given, so a Secret must not be encrypted in part: an export         *)
(* encrypts both fields of it or none, and both are maps.  Then a Secret   *)
(* of which anything is encrypted has nothing left for another key.        *)
(***************************************************************************)

\* The values of data and stringData.
InSecretField(p) == p # <<>> /\ Front(p) \in {<<"data">>, <<"stringData">>}
AllSecured(o) == \A p \in DOMAIN o : InSecretField(p) => Secured(o[p])

HasOneKey(f, o) ==
    /\ \A p, q \in Decryptable(o) : o[p].key = o[q].key
    /\ IsSecret(f) /\ Decryptable(o) # {} => AllSecured(o)

OInv ==
    /\ \A f \in Files : HasOneKey(f, disk[f].obj)
    /\ pc \in InCommand => HasOneKey(Head(todo), mem.obj)
    /\ pc # "idle" /\ op # "update" => key \in AesKeys

IsDone(command, f, o) ==
    /\ command = "encrypt" => <<"kind">> \in DOMAIN o /\ (IsSecret(f) => AllSecured(o))
    /\ command = "decrypt" => Decryptable(o) = {}

DInv ==
    /\ pc # "idle" => /\ result.op = op /\ result.status = "running"
                      /\ \A f \in ToSet(result.files) :
                            f \in ToSet(todo) \/ (f \in Files /\ IsDone(op, f, disk[f].obj))
    /\ pc \in {"truncate", "print"} => IsDone(op, Head(todo), mem.obj)
    /\ result.status = "ok" =>
          \A f \in ToSet(result.files) : f \in Files /\ IsDone(result.op, f, disk[f].obj)

\* data and stringData of a Secret, and what encryption finds in them.
LEMMA SecretFieldTargets ==
    ASSUME SecretsAreWhole, NEW f \in Files, IsSecret(f), NEW o, WellFormed(o), IsPartOf(f, o),
           NEW d \in {"data", "stringData"}
    PROVE  Transformed(o, <<d>>) = {p \in DOMAIN o \ {<<>>} : Front(p) = <<d>>}
<1>1. ReachedBy(o, <<d>>) = {<<d>>} \cap DOMAIN o
  BY TopFieldIsReached, DataIsNoPosition
<1>2. <<d>> \in DOMAIN o => o[<<d>>].kind = "map"
  <2>1. <<d>> \in DOMAIN o => <<d>> \in DOMAIN Original[f] /\ Original[f][<<d>>].kind = "map"
    BY DEF SecretsAreWhole, IsPartOf
  <2> QED
    BY <2>1 DEF IsPartOf, IsScalar
<1>3. \A p \in DOMAIN o \ {<<>>} : Front(p) \in DOMAIN o
  BY AboveIsThere
<1>4. {p \in ReachedBy(o, <<d>>) : o[p].kind = "string"} = {}
  BY <1>1, <1>2
<1> QED
  BY <1>1, <1>2, <1>3, <1>4 DEF Transformed

\* A Secret whose data and stringData are encrypted has one key, and nothing in clear.
LEMMA EncryptedSecret ==
    ASSUME SecretsAreWhole, NEW f \in Files, IsSecret(f), NEW o, WellFormed(o), IsPartOf(f, o),
           HasOneKey(f, o), NEW aesKey, aesKey # "none"
    PROVE  LET r == EncryptFields(o, SecretFields, aesKey) IN HasOneKey(f, r) /\ AllSecured(r)
<1> DEFINE r == EncryptFields(o, SecretFields, aesKey)
<1>1. Len(SecretFields) \in Nat /\ DOMAIN SecretFields = 1 .. Len(SecretFields)
  BY SecretFieldsShape
<1>2. /\ EncryptsTo(o, r, aesKey)
      /\ \A p \in DOMAIN r : r[p] # o[p] => \E i \in DOMAIN SecretFields : p \in Transformed(o, SecretFields[i])
      /\ \A i \in DOMAIN SecretFields : \A p \in Transformed(o, SecretFields[i]) \cap DOMAIN r : Secured(r[p])
  BY <1>1, EncryptFieldsResult
<1> HIDE DEF r
<1>3. \A p \in DOMAIN o : InSecretField(p) <=> \E i \in DOMAIN SecretFields : p \in Transformed(o, SecretFields[i])
  <2>1. \A i \in DOMAIN SecretFields : i = 1 \/ i = 2
    BY SecretFieldsShape
  <2>2. /\ Transformed(o, SecretFields[1]) = {p \in DOMAIN o \ {<<>>} : Front(p) = <<"data">>}
        /\ Transformed(o, SecretFields[2]) = {p \in DOMAIN o \ {<<>>} : Front(p) = <<"stringData">>}
    BY SecretFieldsShape, SecretFieldTargets
  <2> QED
    BY <2>1, <2>2, SecretFieldsShape DEF InSecretField
<1>4. DOMAIN r \subseteq DOMAIN o
  BY <1>2 DEF EncryptsTo
<1>5. AllSecured(r)
  BY <1>2, <1>3, <1>4 DEF AllSecured
<1>6. CASE Decryptable(o) = {}
  <2>1. ASSUME NEW p \in Decryptable(r) PROVE r[p].key = aesKey
    <3>1. p \in DOMAIN o /\ p \in DOMAIN r /\ r[p].key # "none" /\ o[p].key = "none"
      BY <1>4, <1>6 DEF Decryptable
    <3> QED
      BY <1>2, <3>1 DEF EncryptsTo
  <2> QED
    BY <1>5, <2>1 DEF HasOneKey, r
<1>7. CASE Decryptable(o) # {}
  <2>1. ASSUME NEW p \in Decryptable(r) PROVE p \in Decryptable(o) /\ r[p].key = o[p].key
    <3>1. p \in DOMAIN o /\ p \in DOMAIN r
      BY <1>4 DEF Decryptable
    <3>2. CASE r[p] # o[p]
      <4>1. Secured(o[p])
        BY <1>2, <1>3, <1>7, <3>1, <3>2 DEF HasOneKey, AllSecured
      <4>2. r[p].key = o[p].key
        BY <1>2, <3>1, <4>1 DEF EncryptsTo
      <4> QED
        BY <3>1, <4>2 DEF Decryptable
    <3>3. CASE r[p] = o[p]
      BY <3>1, <3>3 DEF Decryptable
    <3> QED
      BY <3>2, <3>3
  <2> QED
    BY <1>5, <2>1 DEF HasOneKey, r
<1> QED
  BY <1>5, <1>6, <1>7 DEF r

\* What an export wrote has one key, and whole Secrets.
LEMMA ExportHasOneKey ==
    ASSUME SecretsAreWhole, NEW f \in Files, NEW fields \in ExportFields, NEW aesKey,
           Len(fields) \in Nat, DOMAIN fields = 1 .. Len(fields),
           fields # <<>> => aesKey # "none"
    PROVE  HasOneKey(f, EncryptFields(Original[f], fields, aesKey))
<1> DEFINE o == Original[f]
           r == EncryptFields(Original[f], fields, aesKey)
<1>1. WellFormed(o) /\ IsPartOf(f, o) /\ \A p \in DOMAIN o : o[p].key = "none"
  BY EndsOfParts, FileCommandsAssumption
<1> HIDE DEF o
<1>2. /\ EncryptsTo(o, r, aesKey)
      /\ \A p \in DOMAIN r : r[p] # o[p] => \E i \in DOMAIN fields : p \in Transformed(o, fields[i])
      /\ aesKey # "none" => \A i \in DOMAIN fields :
            \A p \in Transformed(o, fields[i]) \cap DOMAIN r : Secured(r[p])
  BY <1>1, EncryptFieldsResult DEF o
<1> HIDE DEF r
<1>3. ASSUME NEW p \in Decryptable(r) PROVE r[p].key = aesKey /\ fields # <<>>
  <2>1. p \in DOMAIN r /\ p \in DOMAIN o /\ r[p].key # "none" /\ o[p].key = "none"
    BY <1>1, <1>2 DEF Decryptable, EncryptsTo
  <2>2. r[p].key = aesKey
    BY <1>2, <2>1 DEF EncryptsTo
  <2>3. PICK i \in DOMAIN fields : TRUE
    BY <1>2, <2>1
  <2>4. Len(fields) # 0 /\ Len(<<>>) = 0
    BY <2>3
  <2> QED
    BY <2>2, <2>4
<1>4. ASSUME IsSecret(f), Decryptable(r) # {} PROVE AllSecured(r)
  <2>1. aesKey # "none" /\ fields # <<>>
    BY <1>3, <1>4
  <2>2. SUFFICES ASSUME NEW p \in DOMAIN r, InSecretField(p) PROVE Secured(r[p])
    BY DEF AllSecured
  <2>3. PICK d \in {"data", "stringData"} : Front(p) = <<d>> /\ p # <<>>
    BY <2>2 DEF InSecretField
  <2>4. p \in Transformed(o, <<d>>)
    BY <1>1, <1>2, <1>4, <2>3, SecretFieldTargets DEF EncryptsTo
  <2>5. PICK i \in DOMAIN fields : fields[i] = <<d>>
    BY <1>4, <2>1 DEF SecretsAreWhole
  <2> QED
    BY <1>2, <2>1, <2>4, <2>5
<1> QED
  BY <1>3, <1>4 DEF HasOneKey, r

\* A part of an object has no more keys than the object.
LEMMA PartHasOneKey ==
    ASSUME NEW f, NEW o, HasOneKey(f, o), NEW r, DOMAIN r \subseteq DOMAIN o, \A q \in DOMAIN r : r[q] = o[q]
    PROVE  HasOneKey(f, r)
<1>1. \A p \in Decryptable(r) : p \in Decryptable(o) /\ r[p] = o[p]
  BY DEF Decryptable
<1> QED
  BY <1>1 DEF HasOneKey, AllSecured

LEMMA NothingHasOneKey == ASSUME NEW f PROVE HasOneKey(f, Nothing)
<1>1. Decryptable(Nothing) = {}
  BY NothingIsWellFormed DEF Decryptable, Map
<1> QED
  BY <1>1 DEF HasOneKey
-----------------------------------------------------------------------------

LEMMA InitOInv == ASSUME Settled, Init PROVE OInv /\ DInv
<1>1. PICK s \in Settings, fields \in [Files -> ExportFields] :
         /\ KeyOf("encrypt", s) \notin AesKeys => \A f \in Files : fields[f] = <<>>
         /\ \A f \in Files : /\ disk[f].obj = EncryptFields(Original[f], fields[f], KeyOf("encrypt", s))
                             /\ Len(fields[f]) \in Nat /\ DOMAIN fields[f] = 1 .. Len(fields[f])
  BY ExportedFile
<1>2. KeyOf("encrypt", s) = "none" => \A f \in Files : fields[f] = <<>>
  BY <1>1, FileCommandsAssumption
<1>3. ASSUME NEW f \in Files PROVE HasOneKey(f, disk[f].obj)
  <2>1. PICK k : k = KeyOf("encrypt", s)
    OBVIOUS
  <2>2. PICK list \in ExportFields : list = fields[f]
    OBVIOUS
  <2>3. /\ Len(list) \in Nat /\ DOMAIN list = 1 .. Len(list) /\ (list # <<>> => k # "none")
        /\ disk[f].obj = EncryptFields(Original[f], list, k)
    BY <1>1, <1>2, <2>1, <2>2
  <2>4. HasOneKey(f, EncryptFields(Original[f], list, k))
    BY <2>3, ExportHasOneKey DEF Settled
  <2> QED
    BY <2>3, <2>4
<1>4. pc = "idle" /\ result.status = "none"
  BY DEF Init, None
<1> QED
  BY <1>3, <1>4 DEF OInv, DInv, InCommand

LEMMA NextOInv == ASSUME Settled PROVE FInv /\ TInv /\ CInv /\ OInv /\ [Next]_vars => OInv'
<1> SUFFICES ASSUME FInv, TInv, CInv, OInv, [Next]_vars PROVE OInv'
  OBVIOUS
<1>1. ASSUME pc' \in InCommand PROVE HasOneKey(Head(todo), mem'.obj)
  <2>0. Head(todo) \in Files
    BY <1>1, StaysInFile
  <2>1. CASE Read
    BY <2>0, <2>1 DEF Read, OInv
  <2>2. CASE pc \in InCommand /\ mem' = mem
    BY <2>2 DEF OInv
  <2>3. CASE pc \in InCommand /\ Encrypt
    <3>1. /\ IsPartOf(Head(todo), mem.obj) /\ WellFormed(mem.obj) /\ HasOneKey(Head(todo), mem.obj)
          /\ mem.obj[<<"kind">>].text = Original[Head(todo)][<<"kind">>].text
      BY <2>3 DEF CInv, IsPartOf, TInv, OInv
    <3>2. key # "none"
      BY <2>3, FileCommandsAssumption DEF Encrypt, OInv, TInv, OwnStep
    <3>3. IsSecret(Head(todo)) => HasOneKey(Head(todo), EncryptFields(mem.obj, SecretFields, key))
      BY <2>0, <3>1, <3>2, EncryptedSecret DEF Settled
    <3> QED
      BY <2>3, <3>1, <3>3, EncryptInMemory DEF IsSecret
  <2>4. CASE pc \in InCommand /\ Decrypt
    <3>1. HasOneKey(Head(todo), DecryptFields(mem.obj))
      BY DecryptFieldsResult DEF HasOneKey, TInv
    <3>2. HasOneKey(Head(todo), mem.obj)
      BY <2>4 DEF OInv
    <3> QED
      BY <2>4, <3>1, <3>2, DecryptInMemory
  <2> QED
    BY <1>1, <2>1, <2>2, <2>3, <2>4, StaysInFile
<1>2. ASSUME NEW f \in Files PROVE HasOneKey(f, disk'[f].obj)
  <2>1. ASSUME f = Head(todo), pc \in InCommand PROVE HasOneKey(f, PartOfMemory.obj)
    <3>1. HasOneKey(f, mem.obj)
      BY <2>1 DEF OInv
    <3> QED
      BY <3>1, RemoveKeepsWellFormed, PartHasOneKey DEF TInv, PartOfMemory
  <2>2. CASE disk'[f] = disk[f]
    BY <2>2 DEF OInv
  <2>3. CASE disk'[f] = [obj |-> Nothing, refs |-> <<>>, lost |-> TRUE]
    BY <2>3, NothingHasOneKey
  <2>4. CASE f = Head(todo) /\ pc \in InCommand /\ (disk'[f] = mem \/ disk'[f] = PartOfMemory)
    BY <2>1, <2>4 DEF OInv
  <2> QED
    BY <2>2, <2>3, <2>4, DiskSteps DEF InCommand
<1>3. ASSUME pc' # "idle", op' # "update" PROVE key' \in AesKeys
  <2>1. CASE StartAny
    BY <1>3, <2>1 DEF StartAny, Start, FInv, CurrentFile
  <2>2. CASE ~ StartAny
    <3>1. UNCHANGED <<op, key>> /\ pc # "idle"
      BY <1>3, <2>2 DEF Next, ReadFails, Read, Encrypt, Decrypt, UpdateReference, UpdateFile,
         Truncate, PrintObj, PrintObjFails, Killed, vars, cmdVars
    <3> QED
      BY <1>3, <3>1 DEF OInv
  <2> QED
    BY <2>1, <2>2
<1>4. pc' \in InCommand => todo' = todo
  BY StaysInFile
<1> QED
  BY <1>1, <1>2, <1>3, <1>4 DEF OInv

\* One call of decrypt decrypts all of a file: the values that it visits have one key,
\* also after calls with other keys that failed or were killed.
THEOREM FilesHaveOneKey == ASSUME Settled PROVE Spec => []OneKeyPerFile
<1>1. OInv => OneKeyPerFile
  BY DEF OInv, HasOneKey, OneKeyPerFile
<1>2. Init => CInv /\ OInv
  BY InitCInv, InitOInv DEF Settled
<1>3. FInv /\ TInv /\ CInv /\ [Next]_vars => CInv'
  BY NextCInv DEF Settled
<1> QED
  BY <1>1, <1>2, <1>3, InitFInv, NextFInv, InitTInv, NextTInv, NextOInv, PTL DEF Spec
-----------------------------------------------------------------------------

\* The files that are left after the current one.
LEMMA FilesLeft ==
    ASSUME FInv, pc # "idle"
    PROVE  /\ ToSet(todo) \subseteq Files /\ Head(todo) \in ToSet(todo)
           /\ ToSet(todo) = {Head(todo)} \cup ToSet(Tail(todo))
           /\ ~ Len(todo) > 1 => ToSet(todo) = {Head(todo)}
<1>1. todo # <<>> /\ todo \in Seq(Files)
  BY HeadIsFile DEF FInv, CurrentFile
<1>2. /\ Len(todo) \in Nat \ {0} /\ DOMAIN todo = 1 .. Len(todo)
      /\ Head(todo) = todo[1] /\ \A i \in 1 .. Len(todo) : todo[i] \in Files
  BY <1>1, LenProperties, EmptySeq, HeadTailProperties, ElementOfSeq
<1>3. /\ DOMAIN Tail(todo) = 1 .. Len(todo) - 1
      /\ \A i \in 1 .. Len(todo) - 1 : Tail(todo)[i] = todo[i + 1]
  BY <1>1, HeadTailProperties, LenProperties
<1>4. /\ ToSet(todo) \subseteq Files /\ Head(todo) \in ToSet(todo)
      /\ ~ Len(todo) > 1 => ToSet(todo) = {Head(todo)}
  BY <1>2 DEF ToSet
<1>5. ASSUME NEW f \in ToSet(todo), f # Head(todo) PROVE f \in ToSet(Tail(todo))
  <2>1. PICK i \in 1 .. Len(todo) : f = todo[i]
    BY <1>2 DEF ToSet
  <2>2. i - 1 \in 1 .. Len(todo) - 1 /\ (i - 1) + 1 = i
    BY <1>2, <1>5, <2>1
  <2>3. Tail(todo)[i - 1] = f
    BY <1>3, <2>1, <2>2
  <2> QED
    BY <1>3, <2>2, <2>3 DEF ToSet
<1>6. ASSUME NEW f \in ToSet(Tail(todo)) PROVE f \in ToSet(todo)
  <2>1. PICK i \in 1 .. Len(todo) - 1 : f = todo[i + 1]
    BY <1>3 DEF ToSet
  <2>2. i + 1 \in 1 .. Len(todo)
    BY <1>2
  <2> QED
    BY <1>2, <2>1, <2>2 DEF ToSet
<1> QED
  BY <1>4, <1>5, <1>6

\* A step in a command: it goes on with its file, has done it, or ends for an error.
LEMMA CommandSteps ==
    ASSUME FInv, TInv, [Next]_vars, pc # "idle"
    PROVE  /\ UNCHANGED <<op, key>>
           /\ \/ pc' # "idle" /\ UNCHANGED <<todo, result>>
              \/ /\ NextFile
                 /\ \/ PrintObj
                    \/ UpdateFile /\ op = "update" /\ disk' = disk
              \/ /\ pc' = "idle" /\ result'.files = result.files /\ result'.op = result.op
                 /\ result'.status \in {"read", "decrypt", "open", "print", "killed"}
<1> USE DEF cmdVars, fileVars
<1>1. ASSUME NEW status \in {"read", "decrypt", "open", "print", "killed"}, Return(status)
      PROVE  /\ pc' = "idle" /\ result'.files = result.files /\ result'.op = result.op
             /\ result'.status \in {"read", "decrypt", "open", "print", "killed"}
  <2>1. result' = [op |-> result.op, files |-> result.files, status |-> status]
    BY <1>1 DEF Return, TInv
  <2> QED
    BY <1>1, <2>1 DEF Return
<1>2. CASE ReadFails \/ PrintObjFails \/ Killed
  BY <1>1, <1>2 DEF ReadFails, PrintObjFails, Killed
<1>3. CASE Read \/ Encrypt
  BY <1>3 DEF Read, Encrypt, FInv, CurrentFile
<1>4. CASE Decrypt
  BY <1>1, <1>4 DEF Decrypt
<1>5. CASE UpdateReference
  BY <1>5 DEF UpdateReference
<1>6. CASE UpdateFile
  BY <1>6 DEF UpdateFile, TInv, OwnStep
<1>7. CASE Truncate
  BY <1>1, <1>7 DEF Truncate
<1>8. CASE PrintObj
  BY <1>8 DEF PrintObj
<1>9. CASE UNCHANGED vars
  BY <1>9 DEF vars
<1>10. CASE StartAny
  BY <1>10 DEF StartAny, Start
<1> QED
  BY <1>2, <1>3, <1>4, <1>5, <1>6, <1>7, <1>8, <1>9, <1>10 DEF Next

\* What a command transformed is done.
LEMMA NextMemoryIsDone ==
    ASSUME Settled, FInv, TInv, CInv, OInv, DInv, [Next]_vars, pc' \in {"truncate", "print"}
    PROVE  IsDone(op, Head(todo), mem'.obj)
<1>1. Head(todo) \in Files /\ pc \in InCommand
  BY StaysInFile DEF InCommand, Read, FInv, CurrentFile
<1>2. CASE pc \in {"truncate", "print"}
  <2>1. mem' = mem
    BY <1>2, MemorySteps DEF Encrypt, Decrypt, Read
  <2> QED
    BY <1>2, <2>1 DEF DInv
<1>3. CASE pc = "owner"
  BY <1>3 DEF TInv, OwnStep, IsDone
<1>4. CASE pc = "encrypt"
  <2>1. Encrypt /\ op = "encrypt"
    BY <1>4 DEF TInv, OwnStep, Next, StartAny, Start, ReadFails, Read, Decrypt, UpdateReference, UpdateFile,
       Truncate, PrintObj, PrintObjFails, Killed, Return, vars
  <2>2. /\ IsPartOf(Head(todo), mem.obj) /\ mem.obj # Nothing /\ WellFormed(mem.obj)
        /\ HasOneKey(Head(todo), mem.obj) /\ <<"kind">> \in DOMAIN mem.obj
        /\ mem.obj[<<"kind">>].text = Original[Head(todo)][<<"kind">>].text
    BY <1>1 DEF CInv, IsPartOf, TInv, OInv
  <2>3. key # "none"
    BY <1>4, <2>1, FileCommandsAssumption DEF OInv
  <2>4. <<"kind">> \in DOMAIN mem'.obj
    BY <1>1, StaysInFile, NextMemoryContent DEF Settled, IsPartOf, InCommand
  <2>5. IsSecret(Head(todo)) => AllSecured(EncryptFields(mem.obj, SecretFields, key))
    BY <1>1, <2>2, <2>3, EncryptedSecret DEF Settled
  <2>6. IsSecret(Head(todo)) => AllSecured(mem'.obj)
    BY <2>1, <2>2, <2>5, EncryptInMemory DEF IsSecret
  <2> QED
    BY <2>1, <2>4, <2>6 DEF IsDone
<1>5. CASE pc = "decrypt"
  <2>1. Decrypt /\ op = "decrypt"
    BY <1>5 DEF TInv, OwnStep, Next, StartAny, Start, ReadFails, Read, Encrypt, UpdateReference, UpdateFile,
       Truncate, PrintObj, PrintObjFails, Killed, Return, vars
  <2>2. mem'.obj = DecryptFields(mem.obj)
    BY <2>1, DecryptInMemory DEF Return
  <2> QED
    BY <2>1, <2>2, DecryptFieldsResult DEF IsDone, TInv
<1> QED
  BY <1>1, <1>2, <1>3, <1>4, <1>5 DEF InCommand

LEMMA NextDInv == ASSUME Settled PROVE FInv /\ TInv /\ CInv /\ OInv /\ DInv /\ [Next]_vars => DInv'
<1> SUFFICES ASSUME FInv, TInv, CInv, OInv, DInv, [Next]_vars PROVE DInv'
  OBVIOUS
<1>1. ASSUME pc' \in {"truncate", "print"} PROVE IsDone(op', Head(todo'), mem'.obj)
  BY <1>1, StaysInFile, NextMemoryIsDone DEF InCommand
<1>2. CASE pc = "idle"
  <2>1. StartAny \/ UNCHANGED vars
    BY <1>2 DEF Next, ReadFails, Read, Encrypt, Decrypt, UpdateReference, UpdateFile, Truncate,
       PrintObj, PrintObjFails, Killed
  <2>2. CASE StartAny
    <3>1. PICK command \in {"encrypt", "decrypt", "update"}, args \in Seq(Files), s \in Settings : Start(command, args, s)
      BY <2>2, FileCommandsAssumption DEF StartAny
    <3>2. \/ pc' = "idle" /\ result'.status = "key"
          \/ /\ pc' = "read" /\ todo' = args /\ op' = command
             /\ result' = [op |-> command, files |-> args, status |-> "running"]
      BY <1>2, <3>1 DEF Start
    <3> QED
      BY <3>2 DEF DInv
  <2>3. CASE UNCHANGED vars
    BY <2>3 DEF DInv, vars, cmdVars, fileVars
  <2> QED
    BY <2>1, <2>2, <2>3
<1>3. CASE pc # "idle"
  <2> DEFINE DoneOrLeft(f) == f \in ToSet(todo) \/ (f \in Files /\ IsDone(op, f, disk[f].obj))
  <2>1. /\ UNCHANGED <<op, key>> /\ result.op = op /\ result.status = "running"
        /\ \A f \in ToSet(result.files) : DoneOrLeft(f)
    BY <1>3, CommandSteps DEF DInv
  <2>2. \A f \in Files \ {Head(todo)} : disk'[f] = disk[f]
    BY DiskSteps
  <2>3. /\ ToSet(todo) \subseteq Files /\ Head(todo) \in ToSet(todo)
        /\ ToSet(todo) = {Head(todo)} \cup ToSet(Tail(todo))
        /\ ~ Len(todo) > 1 => ToSet(todo) = {Head(todo)}
    BY <1>3, FilesLeft
  <2>4. CASE pc' # "idle" /\ UNCHANGED <<todo, result>>
    <3>1. \A f \in ToSet(result.files) : DoneOrLeft(f)'
      BY <2>1, <2>2, <2>3, <2>4
    <3> QED
      BY <1>1, <2>1, <2>4, <3>1 DEF DInv
  <2>5. CASE NextFile /\ (PrintObj \/ (op = "update" /\ disk' = disk))
    <3>1. Head(todo) \in Files /\ IsDone(op, Head(todo), disk'[Head(todo)].obj)
      <4>1. CASE PrintObj
        <5>1. disk'[Head(todo)] = mem /\ pc = "print"
          BY <2>3, <4>1 DEF PrintObj, FInv, FilesShape
        <5> QED
          BY <2>3, <5>1 DEF DInv
      <4>2. CASE op = "update"
        BY <2>3, <4>2 DEF IsDone
      <4> QED
        BY <2>5, <4>1, <4>2
    <3>2. \A f \in ToSet(result.files) :
             f \in ToSet(Tail(todo)) \/ (f \in Files /\ IsDone(op, f, disk'[f].obj))
      BY <2>1, <2>2, <2>3, <3>1
    <3>3. CASE Len(todo) > 1
      <4>1. pc' = "read" /\ todo' = Tail(todo) /\ UNCHANGED result
        BY <2>5, <3>3 DEF NextFile
      <4> QED
        BY <2>1, <3>2, <4>1 DEF DInv
    <3>4. CASE ~ Len(todo) > 1
      <4>1. pc' = "idle" /\ result' = [op |-> result.op, files |-> result.files, status |-> "ok"]
        BY <2>5, <3>4 DEF NextFile, Return, TInv
      <4>2. \A f \in ToSet(result.files) : f \in Files /\ IsDone(op, f, disk'[f].obj)
        BY <2>1, <2>2, <2>3, <3>1, <3>4
      <4> QED
        BY <2>1, <4>1, <4>2 DEF DInv
    <3> QED
      BY <3>3, <3>4
  <2>6. CASE pc' = "idle" /\ result'.status \in {"read", "decrypt", "open", "print", "killed"}
    BY <2>6 DEF DInv
  <2> QED
    BY <1>3, <2>4, <2>5, <2>6, CommandSteps
<1> QED
  BY <1>2, <1>3

\* When encrypt or decrypt succeeds, each of its files is done: no value of a Secret is
\* in clear any more, or none is encrypted that decrypt can reach.
THEOREM CommandsDoAll == ASSUME Settled PROVE Spec => []DoneWhenOk
<1>1. TInv /\ CInv /\ DInv => DoneWhenOk
  <2> SUFFICES ASSUME TInv, CInv, DInv, result.status = "ok", NEW f \in ToSet(result.files)
               PROVE  LET o == disk[f].obj IN
                      /\ result.op = "encrypt" /\ o[<<"kind">>].text = {"Secret"} =>
                            \A p \in DOMAIN o : Len(p) = 2 /\ p[1] \in {"data", "stringData"} =>
                                o[p].kind = "string" /\ (o[p].key # "none" \/ o[p].text = {})
                      /\ result.op = "decrypt" => Decryptable(o) = {}
    BY DEF DoneWhenOk
  <2> DEFINE o == disk[f].obj
  <2>1. f \in Files /\ IsDone(result.op, f, o)
    BY DEF DInv
  <2>2. WellFormed(o) /\ IsPartOf(f, o)
    BY <2>1 DEF TInv, CInv
  <2> HIDE DEF o
  <2>3. ASSUME result.op = "encrypt", o[<<"kind">>].text = {"Secret"},
               NEW p \in DOMAIN o, Len(p) = 2, p[1] \in {"data", "stringData"}
        PROVE  o[p].kind = "string" /\ (o[p].key # "none" \/ o[p].text = {})
    <3>1. AllSecured(o)
      BY <2>1, <2>2, <2>3 DEF IsDone, IsSecret, IsPartOf
    <3>2. p \in Seq(STRING) /\ p # <<>>
      BY <2>2, <2>3, EmptySeq DEF WellFormed
    <3>3. /\ Front(p) \in Seq(STRING) /\ Len(Front(p)) = 1 /\ Front(p)[1] = p[1]
      <4>1. /\ Front(p) \in Seq(STRING) /\ Len(Front(p)) = Len(p) - 1
            /\ \A i \in 1 .. Len(p) - 1 : Front(p)[i] = p[i]
        BY <3>2, FrontShape
      <4> QED
        BY <2>3, <4>1
    <3>4. Front(p) \in {<<"data">>, <<"stringData">>}
      BY <2>3, <3>3
    <3> QED
      BY <2>3, <3>1, <3>2, <3>4 DEF AllSecured, InSecretField, Secured
  <2> QED
    BY <2>1, <2>3 DEF o, IsDone
<1>2. Init => CInv /\ OInv /\ DInv
  BY InitCInv, InitOInv DEF Settled
<1>3. FInv /\ TInv /\ CInv /\ [Next]_vars => CInv'
  BY NextCInv DEF Settled
<1> QED
  BY <1>1, <1>2, <1>3, InitFInv, NextFInv, InitTInv, NextTInv, NextOInv, NextDInv, PTL DEF Spec
-----------------------------------------------------------------------------
(***************************************************************************)
(* update-owner-references.  The owners that were found are kept by keys   *)
(* without the kind, so a reference may be given the owner of another one  *)
(* of the same file; when the references of a file differ in more than the *)
(* kind, each one is looked up, and what is reported is what was found.    *)
(***************************************************************************)

Stale(f, ref) == \A o \in Owner(f, ref) : o.uid # ref.uid
HasRow(f, ref) == \E to \in {row.to : row \in rows} : Row(f, ref, to) \in rows

\* The references before the n-th one, and all of them, that are stale have rows.
ReportedBefore(f, refs, n) ==
    DistinctOwners(f) => \A i \in DOMAIN refs : i < n /\ Stale(f, refs[i]) => HasRow(f, refs[i])
Reported(f, refs) ==
    DistinctOwners(f) => \A i \in DOMAIN refs : Stale(f, refs[i]) => HasRow(f, refs[i])

IsRightRow(row) ==
    DistinctOwners(row.file) =>
        row.to \in {NotFound, Error} \cup
            UNION {{o.uid : o \in Owner(row.file, Refs[row.file][i])} :
                      i \in {i \in DOMAIN Refs[row.file] : /\ Refs[row.file][i].kind = row.kind
                                                           /\ Refs[row.file][i].name = row.name}}

RInv ==
    /\ \A f \in Files : disk[f].refs \in {<<>>, Refs[f]}
    /\ pc \in InCommand => mem.refs \in {<<>>, Refs[Head(todo)]}
    /\ pc = "owner" =>
          /\ next \in Nat \ {0} /\ mem.refs = disk[Head(todo)].refs
          /\ DOMAIN owners \subseteq {OwnerKey(Head(todo), mem.refs[j]) : j \in 1 .. next - 1}
          /\ ReportedBefore(Head(todo), mem.refs, next)
    /\ pc \in {"truncate", "print"} /\ op = "update" => Reported(Head(todo), mem.refs)
    /\ pc # "idle" => result.op = op /\ result.status = "running"
    /\ pc # "idle" /\ op = "update" =>
          \A f \in Files : f \in ToSet(todo) \/ Reported(f, disk[f].refs)
    /\ result.op = "update" /\ result.status = "ok" => \A f \in Files : Reported(f, disk[f].refs)
    /\ \A row \in rows : IsRightRow(row)

LEMMA InitRInv == Init => RInv
<1> SUFFICES ASSUME Init PROVE RInv
  OBVIOUS
<1>1. \A f \in Files : disk[f].refs = Refs[f]
  BY ExportedFile
<1>2. pc = "idle" /\ rows = {} /\ result.op = "none"
  BY DEF Init, None
<1> QED
  BY <1>1, <1>2 DEF RInv, InCommand

\* What is stale and what was reported, once there are more rows.
LEMMA MoreRows ==
    ASSUME UNCHANGED cluster, rows \subseteq rows'
    PROVE  \A f, refs : /\ \A n : ReportedBefore(f, refs, n) => ReportedBefore(f, refs, n)'
                        /\ Reported(f, refs) => Reported(f, refs)'
<1>1. \A f, ref : Stale(f, ref)' <=> Stale(f, ref)
  BY DEF Stale, Owner
<1>2. \A f, ref : HasRow(f, ref) => HasRow(f, ref)'
  <2>1. {row.to : row \in rows} \subseteq {row.to : row \in rows'}
    OBVIOUS
  <2> QED
    BY <2>1 DEF HasRow, Row
<1> QED
  BY <1>1, <1>2 DEF ReportedBefore, Reported

\* One reference of a file.
LEMMA OneReference ==
    ASSUME FInv, TInv, RInv, UpdateReference, NEW f \in Files, f = Head(todo),
           NEW refs, refs = mem.refs, NEW n, n = next
    PROVE  /\ rows \subseteq rows' /\ \A row \in rows' : IsRightRow(row)'
           /\ next' = n + 1 /\ UNCHANGED <<pc, op, todo, mem, cluster>>
           /\ DOMAIN owners' \subseteq {OwnerKey(f, refs[j]) : j \in 1 .. n}
           /\ ReportedBefore(f, refs, n + 1)'
<1> DEFINE ref == refs[n]
<1>1. /\ pc = "owner" /\ n <= Len(refs) /\ n \in Nat \ {0} /\ next' = n + 1
      /\ UNCHANGED <<pc, op, todo, mem, cluster>>
      /\ DOMAIN owners \subseteq {OwnerKey(f, refs[j]) : j \in 1 .. n - 1}
      /\ ReportedBefore(f, refs, n)
      /\ refs \in {<<>>, Refs[f]}
  BY DEF UpdateReference, RInv, InCommand, cmdVars
<1>2. refs = Refs[f] /\ DOMAIN refs = 1 .. Len(refs) /\ n \in DOMAIN refs /\ Len(refs) \in Nat
  <2>1. refs # <<>>
    BY <1>1
  <2>2. refs = Refs[f] /\ Refs[f] \in Seq([kind : STRING, version : STRING, name : STRING, uid : STRING])
    BY <1>1, <2>1, FileCommandsAssumption
  <2> QED
    BY <1>1, <2>2, LenProperties
<1>3. DistinctOwners(f) => OwnerKey(f, ref) \notin DOMAIN owners
  <2>1. SUFFICES ASSUME DistinctOwners(f), NEW j \in 1 .. n - 1, OwnerKey(f, ref) = OwnerKey(f, refs[j])
                 PROVE  FALSE
    BY <1>1
  <2>2. ref.version = refs[j].version /\ ref.name = refs[j].name
    BY <2>1 DEF OwnerKey
  <2>3. j \in DOMAIN refs /\ j # n
    BY <1>1, <1>2
  <2> QED
    BY <1>2, <2>1, <2>2, <2>3 DEF DistinctOwners
<1> DEFINE found(uid) == rows' = IF ref.uid = uid THEN rows ELSE rows \cup {Row(f, ref, uid)}
<1>4. \/ OwnerKey(f, ref) \in DOMAIN owners /\ (\E uid : found(uid)) /\ UNCHANGED owners
      \/ \E o \in Owner(f, ref) :
            /\ found(o.uid)
            /\ DOMAIN owners' = DOMAIN owners \cup {OwnerKey(f, ref)}
      \/ rows' = rows \cup {Row(f, ref, Error)} /\ UNCHANGED owners
      \/ rows' = rows \cup {Row(f, ref, NotFound)} /\ UNCHANGED owners
  BY DEF UpdateReference
<1>5. rows \subseteq rows'
  BY <1>4
<1>6. DOMAIN owners' \subseteq {OwnerKey(f, refs[j]) : j \in 1 .. n}
  <2>1. DOMAIN owners' \subseteq DOMAIN owners \cup {OwnerKey(f, ref)}
    BY <1>4
  <2>2. 1 .. n - 1 \subseteq 1 .. n /\ n \in 1 .. n
    BY <1>1
  <2> QED
    BY <1>1, <2>1, <2>2
<1>7. \A row : IsRightRow(row)' <=> IsRightRow(row)
  BY <1>1 DEF IsRightRow, Owner
<1>8. ASSUME NEW row \in rows' PROVE IsRightRow(row)
  <2>1. CASE row \in rows
    BY <2>1 DEF RInv
  <2>2. CASE row \notin rows /\ DistinctOwners(f)
    <3>1. \/ \E o \in Owner(f, ref) : row = Row(f, ref, o.uid)
          \/ row = Row(f, ref, Error) \/ row = Row(f, ref, NotFound)
      BY <1>3, <1>4, <1>8, <2>2
    <3> QED
      BY <1>2, <3>1 DEF IsRightRow, Row
  <2>3. CASE row \notin rows /\ ~ DistinctOwners(f)
    <3>1. row.file = f
      BY <1>4, <1>8, <2>3 DEF Row
    <3> QED
      BY <2>3, <3>1 DEF IsRightRow
  <2> QED
    BY <2>1, <2>2, <2>3
<1>9. ReportedBefore(f, refs, n + 1)'
  <2>1. SUFFICES ASSUME DistinctOwners(f), NEW i \in DOMAIN refs, i < n + 1, Stale(f, refs[i])
                 PROVE  HasRow(f, refs[i])'
    BY <1>1 DEF ReportedBefore, Stale, Owner
  <2>2. CASE i < n
    <3>1. HasRow(f, refs[i])
      BY <1>1, <2>1, <2>2 DEF ReportedBefore
    <3> QED
      BY <1>5, <3>1 DEF HasRow, Row
  <2>3. CASE ~ i < n
    <3>1. i = n
      BY <1>1, <1>2, <2>1, <2>3
    <3>2. PICK to : Row(f, ref, to) \in rows'
      BY <1>3, <1>4, <2>1, <3>1 DEF Stale
    <3>3. Row(f, ref, to).to = to
      BY DEF Row
    <3> QED
      BY <3>1, <3>2, <3>3 DEF HasRow
  <2> QED
    BY <2>2, <2>3
<1> QED
  BY <1>1, <1>5, <1>6, <1>7, <1>8, <1>9

\* No step in a command removes a row or adds a wrong one.
LEMMA RowsStayRight ==
    ASSUME FInv, TInv, RInv, [Next]_vars, pc # "idle"
    PROVE  UNCHANGED cluster /\ rows \subseteq rows' /\ \A row \in rows' : IsRightRow(row)'
<1>1. CASE UpdateReference
  <2>1. Head(todo) \in Files
    BY <1>1, HeadIsFile
  <2> QED
    BY <1>1, <2>1, OneReference
<1>2. CASE ~ UpdateReference
  <2>1. UNCHANGED <<rows, cluster>>
    BY <1>2 DEF Next, StartAny, Start, ReadFails, Read, Encrypt, Decrypt, UpdateFile, Truncate, PrintObj,
       PrintObjFails, Killed, vars
  <2>2. \A row : IsRightRow(row)' <=> IsRightRow(row)
    BY <2>1 DEF IsRightRow, Owner
  <2> QED
    BY <2>1, <2>2 DEF RInv
<1> QED
  BY <1>1, <1>2

\* The references in the files and in memory are the ones of the file.
LEMMA RefsStay ==
    ASSUME FInv, RInv, [Next]_vars
    PROVE  /\ \A f \in Files : disk'[f].refs \in {<<>>, Refs[f]}
           /\ pc' \in InCommand => mem'.refs \in {<<>>, Refs[Head(todo')]}
<1>1. \A f \in Files : disk'[f].refs \in {<<>>, Refs[f]}
  <2> SUFFICES ASSUME NEW f \in Files PROVE disk'[f].refs \in {<<>>, Refs[f]}
    OBVIOUS
  <2>1. CASE disk'[f] = disk[f]
    BY <2>1 DEF RInv
  <2>2. CASE f = Head(todo) /\ PrintObj /\ disk'[f] = mem
    BY <2>2 DEF PrintObj, RInv, InCommand
  <2>3. CASE disk'[f].refs = <<>>
    BY <2>3
  <2> QED
    BY <2>1, <2>2, <2>3, DiskSteps DEF PartOfMemory
<1>2. ASSUME pc' \in InCommand PROVE mem'.refs \in {<<>>, Refs[Head(todo')]}
  <2>1. CASE pc = "read" /\ Read
    BY <1>2, <2>1, StaysInFile DEF Read, RInv
  <2>2. CASE pc \in InCommand
    <3>1. mem'.refs = mem.refs
      BY <1>2, <2>2, StaysInFile, EncryptInMemory, DecryptInMemory DEF InCommand, Read
    <3> QED
      BY <1>2, <2>2, <3>1, StaysInFile DEF RInv
  <2> QED
    BY <1>2, <2>1, <2>2, StaysInFile
<1> QED
  BY <1>1, <1>2

\* What is known of the references of the current file.
LEMMA OwnersStayRight ==
    ASSUME FInv, TInv, RInv, [Next]_vars, pc' = "owner"
    PROVE  /\ next' \in Nat \ {0} /\ mem'.refs = disk'[Head(todo')].refs
           /\ DOMAIN owners' \subseteq {OwnerKey(Head(todo'), mem'.refs[j]) : j \in 1 .. next' - 1}
           /\ ReportedBefore(Head(todo), mem.refs, next)'
<1> USE DEF cmdVars, fileVars
<1>1. Read \/ UpdateReference \/ UNCHANGED vars
  BY NextFileShape DEF Next, StartAny, Start, ReadFails, Encrypt, Decrypt, UpdateFile, Truncate, PrintObj,
     PrintObjFails, Killed, FInv, CurrentFile
<1>2. CASE Read
  <2>1. next' = 1 /\ owners' = <<>> /\ mem' = disk[Head(todo)] /\ UNCHANGED <<disk, todo>>
    BY <1>2 DEF Read
  <2>2. Head(todo) \in Files
    BY <1>2, HeadIsFile DEF Read
  <2>3. mem'.refs \in {<<>>, Refs[Head(todo)]}
    BY <2>1, <2>2 DEF RInv
  <2>4. DOMAIN mem'.refs \subseteq Nat \ {0}
    <3>1. Refs[Head(todo)] \in Seq([kind : STRING, version : STRING, name : STRING, uid : STRING])
      BY <2>2, FileCommandsAssumption
    <3>2. DOMAIN Refs[Head(todo)] = 1 .. Len(Refs[Head(todo)])
      BY <3>1, LenProperties
    <3> QED
      BY <2>3, <3>2
  <2>5. \A i \in DOMAIN mem'.refs : ~ i < next'
    BY <2>1, <2>4
  <2>6. DOMAIN owners' = {}
    BY <2>1
  <2> QED
    BY <2>1, <2>5, <2>6 DEF ReportedBefore
<1>3. CASE UpdateReference
  <2>1. pc = "owner" /\ Head(todo) \in Files /\ UNCHANGED <<disk, todo, mem>> /\ next' = next + 1
    BY <1>3, HeadIsFile DEF UpdateReference
  <2>2. next \in Nat \ {0} /\ mem.refs = disk[Head(todo)].refs
    BY <2>1 DEF RInv
  <2>3. /\ DOMAIN owners' \subseteq {OwnerKey(Head(todo), mem.refs[j]) : j \in 1 .. next}
        /\ \A f, refs, n : f = Head(todo) /\ refs = mem.refs /\ n = next => ReportedBefore(f, refs, n + 1)'
    BY <1>3, <2>1, OneReference
  <2>4. PICK f, refs, n : f = Head(todo) /\ refs = mem.refs /\ n = next
    OBVIOUS
  <2>5. ReportedBefore(f, refs, n + 1)'
    BY <2>3, <2>4
  <2>6. ReportedBefore(Head(todo), mem.refs, next)'
    <3>1. f = Head(todo') /\ refs = mem'.refs /\ n + 1 = next'
      BY <2>1, <2>4
    <3> QED
      BY <2>5, <3>1 DEF ReportedBefore
  <2> QED
    BY <2>1, <2>2, <2>3, <2>6
<1>4. CASE UNCHANGED vars
  BY <1>4 DEF vars, RInv, ReportedBefore, Stale, Owner, HasRow
<1> QED
  BY <1>1, <1>2, <1>3, <1>4

\* The current file is left with all of its references reported.
LEMMA CurrentIsReported ==
    ASSUME FInv, TInv, RInv, [Next]_vars, pc # "idle", op = "update", PrintObj \/ UpdateFile
    PROVE  /\ UpdateFile => Reported(Head(todo), mem.refs)
           /\ Reported(Head(todo), disk'[Head(todo)].refs)
<1>1. Head(todo) \in Files
  BY HeadIsFile
<1>2. CASE PrintObj
  <2>1. disk'[Head(todo)] = mem /\ pc = "print"
    BY <1>1, <1>2 DEF PrintObj, FInv, FilesShape
  <2>2. ~ UpdateFile
    BY <2>1 DEF UpdateFile
  <2> QED
    BY <2>1, <2>2 DEF RInv
<1>3. CASE UpdateFile
  <2>1. pc = "owner" /\ next > Len(mem.refs) /\ disk' = disk
    BY <1>3 DEF UpdateFile
  <2>2. /\ next \in Nat \ {0} /\ mem.refs = disk[Head(todo)].refs
        /\ ReportedBefore(Head(todo), mem.refs, next)
        /\ mem.refs \in {<<>>, Refs[Head(todo)]}
    BY <2>1 DEF RInv, InCommand
  <2>3. DOMAIN mem.refs = 1 .. Len(mem.refs) /\ Len(mem.refs) \in Nat
    <3>1. Refs[Head(todo)] \in Seq([kind : STRING, version : STRING, name : STRING, uid : STRING])
      BY <1>1, FileCommandsAssumption
    <3> QED
      BY <2>2, <3>1, LenProperties
  <2>4. \A i \in DOMAIN mem.refs : i < next
    BY <2>1, <2>2, <2>3
  <2>5. Reported(Head(todo), mem.refs)
    BY <2>2, <2>4 DEF Reported, ReportedBefore
  <2> QED
    BY <2>1, <2>2, <2>5
<1> QED
  BY <1>2, <1>3

LEMMA StartRInv == ASSUME FInv, RInv, StartAny PROVE RInv'
<1>1. PICK command \in {"encrypt", "decrypt", "update"}, args \in Seq(Files), s \in Settings :
         Start(command, args, s) /\ (command = "update" => args = AllFiles)
  BY FileCommandsAssumption DEF StartAny
<1>2. /\ pc = "idle" /\ rows' = {} /\ UNCHANGED <<disk, cluster>>
      /\ \/ pc' = "idle" /\ result'.status = "key"
         \/ /\ pc' = "read" /\ todo' = args /\ op' = command
            /\ result' = [op |-> command, files |-> args, status |-> "running"]
  BY <1>1 DEF Start, fileVars
<1>3. command = "update" => \A f \in Files : f \in ToSet(args)
  BY <1>1, FileCommandsAssumption
<1> QED
  BY <1>2, <1>3 DEF RInv, InCommand

\* A step of a command, by what it leaves of the files still to be taken.
LEMMA CommandRInv == ASSUME FInv, TInv, RInv, [Next]_vars, pc # "idle" PROVE RInv'
<1>1. /\ UNCHANGED cluster /\ rows \subseteq rows'
      /\ \A f, refs : Reported(f, refs) => Reported(f, refs)'
  BY RowsStayRight, MoreRows
<1>2. UNCHANGED op /\ result.op = op /\ result.status = "running"
  BY CommandSteps DEF RInv
<1>3. op = "update" => \A f \in Files : f \in ToSet(todo) \/ Reported(f, disk[f].refs)
  BY DEF RInv
<1>4. \A f \in Files \ {Head(todo)} : disk'[f] = disk[f]
  BY DiskSteps
<1>5. /\ ToSet(todo) \subseteq Files /\ Head(todo) \in ToSet(todo)
      /\ ToSet(todo) = {Head(todo)} \cup ToSet(Tail(todo))
      /\ ~ Len(todo) > 1 => ToSet(todo) = {Head(todo)}
  BY FilesLeft
<1>6. ASSUME NEW f \in Files, op = "update", f \notin ToSet(todo)
      PROVE  Reported(f, disk[f].refs)'
  <2>1. Reported(f, disk[f].refs) /\ disk'[f] = disk[f]
    BY <1>3, <1>4, <1>5, <1>6
  <2>2. PICK refs : refs = disk[f].refs
    OBVIOUS
  <2>3. Reported(f, refs)' /\ refs = disk'[f].refs
    BY <1>1, <2>1, <2>2
  <2> QED
    BY <2>3 DEF Reported
<1>7. ASSUME op = "update", PrintObj \/ UpdateFile, NEW f \in Files, f \notin ToSet(Tail(todo))
      PROVE  Reported(f, disk[f].refs)'
  <2>1. CASE f # Head(todo)
    BY <1>5, <1>6, <1>7, <2>1
  <2>2. CASE f = Head(todo)
    <3>1. PICK refs : refs = disk'[f].refs
      OBVIOUS
    <3>2. Reported(f, refs)'
      BY <1>1, <1>7, <2>2, <3>1, CurrentIsReported
    <3> QED
      BY <3>1, <3>2 DEF Reported
  <2> QED
    BY <2>1, <2>2
<1> DEFINE Left == pc' # "idle" /\ op = "update" =>
                      \A f \in Files : f \in ToSet(todo') \/ Reported(f, disk[f].refs)'
           Running == pc' # "idle" => result'.op = op' /\ result'.status = "running"
           Ended == result'.op = "update" /\ result'.status = "ok" => \A f \in Files : Reported(f, disk[f].refs)'
<1>8. Left /\ Running /\ Ended
  <2>1. CASE pc' # "idle" /\ UNCHANGED <<todo, result>>
    BY <1>2, <1>6, <2>1
  <2>2. CASE NextFile /\ (PrintObj \/ (UpdateFile /\ op = "update"))
    <3>1. CASE Len(todo) > 1
      <4>1. pc' = "read" /\ todo' = Tail(todo) /\ UNCHANGED result
        BY <2>2, <3>1 DEF NextFile
      <4> QED
        BY <1>2, <1>7, <2>2, <4>1
    <3>2. CASE ~ Len(todo) > 1
      <4>1. pc' = "idle" /\ result' = [op |-> result.op, files |-> result.files, status |-> "ok"]
        BY <2>2, <3>2 DEF NextFile, Return, TInv
      <4>2. ASSUME op = "update", NEW f \in Files PROVE Reported(f, disk[f].refs)'
        <5>1. CASE f \notin ToSet(todo)
          BY <1>6, <4>2, <5>1
        <5>2. CASE f = Head(todo)
          <6>1. PICK refs : refs = disk'[f].refs
            OBVIOUS
          <6>2. Reported(f, refs)'
            BY <1>1, <2>2, <4>2, <5>2, <6>1, CurrentIsReported
          <6> QED
            BY <6>1, <6>2 DEF Reported
        <5> QED
          BY <1>5, <3>2, <5>1, <5>2
      <4> QED
        BY <1>2, <4>1, <4>2
    <3> QED
      BY <3>1, <3>2
  <2>3. CASE pc' = "idle" /\ result'.status \in {"read", "decrypt", "open", "print", "killed"}
    BY <2>3
  <2> QED
    BY <2>1, <2>2, <2>3, CommandSteps
<1>9. ASSUME pc' \in {"truncate", "print"}, op' = "update" PROVE Reported(Head(todo), mem.refs)'
  <2>1. UNCHANGED <<todo, op>>
    BY <1>9, StaysInFile DEF InCommand
  <2>2. mem' = mem /\ Reported(Head(todo), mem.refs)
    <3>1. CASE pc \in {"truncate", "print"}
      BY <1>9, <2>1, <3>1, MemorySteps DEF Encrypt, Decrypt, Read, RInv
    <3>2. CASE pc = "owner"
      <4>1. ~ UpdateReference /\ ~ UNCHANGED vars
        BY <1>9, <3>2 DEF UpdateReference, vars
      <4>2. UpdateFile
        BY <1>9, <3>2, <4>1 DEF Next, StartAny, Start, ReadFails, Read, Encrypt, Decrypt, Truncate, PrintObj,
           PrintObjFails, Killed, Return
      <4>3. mem' = mem
        BY <4>2 DEF UpdateFile, fileVars
      <4> QED
        BY <1>2, <1>9, <4>2, <4>3, CurrentIsReported
    <3>3. CASE pc \in {"read", "encrypt", "decrypt"}
      BY <1>2, <1>9, <3>3, StaysInFile DEF InCommand, Read, TInv, OwnStep
    <3> QED
      BY <3>1, <3>2, <3>3 DEF FInv, CurrentFile, InCommand
  <2>3. PICK f, refs : f = Head(todo) /\ refs = mem.refs
    OBVIOUS
  <2>4. Reported(f, refs)' /\ f = Head(todo') /\ refs = mem'.refs
    BY <1>1, <2>1, <2>2, <2>3
  <2> QED
    BY <2>4 DEF Reported
<1>10. \A row \in rows' : IsRightRow(row)'
  BY RowsStayRight
<1>11. op' = op
  BY <1>2
<1> HIDE DEF Ended, Running
<1>12. pc' # "idle" /\ op' = "update" => \A f \in Files : f \in ToSet(todo') \/ Reported(f, disk[f].refs)'
  BY <1>8, <1>11
<1> USE DEF Ended, Running
<1> HIDE DEF Left
<1> QED
  BY <1>8, <1>9, <1>10, <1>12, RefsStay, OwnersStayRight DEF RInv

LEMMA NextRInv == FInv /\ TInv /\ RInv /\ [Next]_vars => RInv'
<1> SUFFICES ASSUME FInv, TInv, RInv, [Next]_vars PROVE RInv'
  OBVIOUS
<1>1. CASE StartAny
  BY <1>1, StartRInv
<1>2. CASE pc # "idle"
  BY <1>2, CommandRInv
<1>3. CASE UNCHANGED vars
  BY <1>3 DEF vars, cmdVars, fileVars, RInv, Reported, ReportedBefore, IsRightRow, Stale, HasRow, Owner
<1> QED
  BY <1>1, <1>2, <1>3 DEF Next, ReadFails, Read, Encrypt, Decrypt, UpdateReference, UpdateFile, Truncate,
     PrintObj, PrintObjFails, Killed

\* When update-owner-references succeeds, each reference that is out of date or without
\* an owner was reported, and none with a UID that its owner does not have.
THEOREM StaleIsReported == Spec => []StaleReported
<1>1. RInv => StaleReported
  <2> SUFFICES ASSUME RInv, result.op = "update", result.status = "ok", NEW f \in Files, DistinctOwners(f)
               PROVE  /\ \A i \in DOMAIN disk[f].refs :
                            Stale(f, disk[f].refs[i]) => HasRow(f, disk[f].refs[i])
                      /\ \A row \in rows : row.file = f => IsRightRow(row)
    BY DEF StaleReported, Stale, HasRow, IsRightRow
  <2> QED
    BY DEF RInv, Reported
<1> QED
  BY <1>1, InitFInv, NextFInv, InitTInv, NextTInv, InitRInv, NextRInv, PTL DEF Spec
=============================================================================
