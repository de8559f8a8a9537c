-------------------------- MODULE TaskDispatchProofs --------------------------
(***************************************************************************)
(* Proofs about TaskDispatch, for any number of containers and outputs.    *)
(*                                                                         *)
(* The files under the shared prefix are safe because no two containers    *)
(* ever hold documents for the same file (Owns): error files carry the     *)
(* container's uuid, and every other document is rank 0's.  What a         *)
(* container is going to upload is described by Contents, and IInv relates *)
(* it to what is under the prefix already.                                 *)
(***************************************************************************)
EXTENDS TaskDispatch, TLAPS

Before == {"load_task", "get_data", "pre_execute", "convert_inputs", "execute",
           "post_execute", "convert_outputs", "record"}

Late == {"post_execute", "convert_outputs", "record"}

Uploading == {"upload", "deck", "exit"}

ErrorFiles == {error_file_name(w) : w \in Workers}

(* The containers that may ever write a file, the deck apart.              *)
Owns(w, f) == f = error_file_name(w) \/ (w = Rank0 /\ f \notin ErrorFiles)

(* The documents of a container in which e was raised.                     *)
Contents(w, docs, e) ==
    /\ ~IsIgnored(e)
    /\ \A f \in Files : docs[f] # NoDoc =>
            docs[f].by = w /\ Owns(w, f) /\ f # DECK_FILE_NAME
    /\ e # NoExc => /\ \A f \in Files : docs[f] # NoDoc => docs[f].type = "error"
                    /\ docs[error_file_name(w)] =
                            ContainerError(w, ErrorKind(e), ErrorOrigin(e))
    /\ e = NoExc => \E f \in {OUTPUT_FILE_NAME, FUTURES_FILE_NAME, error_file_name(w)} :
                        docs[f] # NoDoc
    /\ docs[OUTPUT_FILE_NAME] # NoDoc =>
            \A k \in docs[OUTPUT_FILE_NAME].refs : docs[Offloaded(k)] = Doc(w, "literal", {})

(* Where a container is, against what it holds.                            *)
WorkerInv(w) ==
    /\ pc[w] \in Before => /\ output_file_dict[w] = Empty
                           /\ raised[w] = NoExc
                           /\ exit[w] = "None"
                           /\ task_kind # "Elastic" => w = Rank0
    /\ pc[w] \in Late => w = Rank0
    /\ pc[w] \in Uploading => /\ exit[w] = "None"
                              /\ Contents(w, output_file_dict[w], raised[w])
    /\ Ended(w) /\ ~IsIgnored(raised[w]) => Contents(w, output_file_dict[w], raised[w])
    /\ output_file_dict[w] = Empty \/ Contents(w, output_file_dict[w], raised[w])
    /\ \A f \in pending[w] : output_file_dict[w][f] # NoDoc
    /\ pc[w] \in {"deck", "exit"} \/ (Ended(w) /\ ~IsIgnored(raised[w])) => pending[w] = {}

(* What a container has uploaded stays, file by file.                      *)
UploadedInv(w) ==
    pc[w] \in Uploading \/ Ended(w) =>
        \A f \in Files : output_file_dict[w][f] # NoDoc /\ f \notin pending[w] =>
            prefix[f] = output_file_dict[w][f]

(* Every file under the prefix is some container's.                        *)
PrefixInv ==
    /\ \A f \in Files \ {DECK_FILE_NAME} : prefix[f] # NoDoc =>
            \E w \in Workers : /\ prefix[f] = output_file_dict[w][f]
                               /\ output_file_dict[w][f] # NoDoc
    /\ prefix[DECK_FILE_NAME] # NoDoc => prefix[DECK_FILE_NAME].type = "deck"

IInv == /\ TypeOK
        /\ \A w \in Workers : WorkerInv(w)
        /\ \A w \in Workers : UploadedInv(w)
        /\ PrefixInv

-----------------------------------------------------------------------------
(* Facts about names and documents.                                        *)

(* The names of the files of different sorts differ.                       *)
LEMMA FileNames ==
    /\ OUTPUT_FILE_NAME \in Files /\ FUTURES_FILE_NAME \in Files /\ DECK_FILE_NAME \in Files
    /\ \A w \in Workers : error_file_name(w) \in Files
    /\ \A k \in OutputNames : Offloaded(k) \in Files
    /\ OUTPUT_FILE_NAME # FUTURES_FILE_NAME /\ OUTPUT_FILE_NAME # DECK_FILE_NAME
    /\ FUTURES_FILE_NAME # DECK_FILE_NAME
    /\ \A w \in Workers : error_file_name(w) \notin
            {OUTPUT_FILE_NAME, FUTURES_FILE_NAME, DECK_FILE_NAME}
    /\ \A w \in Workers, k \in OutputNames : error_file_name(w) # Offloaded(k)
    /\ \A k \in OutputNames : Offloaded(k) \notin
            {OUTPUT_FILE_NAME, FUTURES_FILE_NAME, DECK_FILE_NAME}
BY DEF Files, OUTPUT_FILE_NAME, FUTURES_FILE_NAME, DECK_FILE_NAME, error_file_name, Offloaded

(* No two containers own the same file.                                    *)
LEMMA OwnsUnique ==
    ASSUME NEW w \in Workers, NEW v \in Workers, NEW f, Owns(w, f), Owns(v, f)
    PROVE  w = v
<1>1. error_file_name(w) = error_file_name(v) => w = v
  BY WorkersAssumption DEF error_file_name
<1> QED BY <1>1 DEF Owns, ErrorFiles

(* The documents that the module writes are documents.                     *)
LEMMA Documents ==
    /\ NoDoc \in Document /\ NoDoc.by = Nobody
    /\ Empty \in [Files -> Document]
    /\ \A w \in Workers, t \in {"outputs", "futures", "literal", "deck"},
          r \in SUBSET OutputNames :
            Doc(w, t, r) \in Document /\ Doc(w, t, r) # NoDoc /\ Doc(w, t, r).by = w
            /\ Doc(w, t, r).type = t /\ Doc(w, t, r).refs = r
    /\ \A w \in Workers, e \in Exceptions \cup {NoExc} :
            LET d == ContainerError(w, ErrorKind(e), ErrorOrigin(e))
            IN  d \in Document /\ d # NoDoc /\ d.by = w /\ d.type = "error"
    /\ \A w \in Workers :
            LET d == ContainerError(w, "RECOVERABLE", "SYSTEM")
            IN  d \in Document /\ d # NoDoc /\ d.by = w /\ d.type = "error"
BY WorkersAssumption
   DEF Document, NoDoc, Doc, Empty, ContainerError, ErrorKind, ErrorOrigin

(* What Handle records is in order.                                        *)
LEMMA ErrorContents ==
    ASSUME NEW w \in Workers, NEW e \in Exceptions, ~IsIgnored(e)
    PROVE  LET d == [Empty EXCEPT ![error_file_name(w)] =
                        ContainerError(w, ErrorKind(e), ErrorOrigin(e))]
           IN  d \in [Files -> Document] /\ Contents(w, d, e)
<1> DEFINE ce == ContainerError(w, ErrorKind(e), ErrorOrigin(e))
           d == [Empty EXCEPT ![error_file_name(w)] = ce]
<1>1. ce \in Document /\ ce # NoDoc /\ ce.by = w /\ ce.type = "error"
  BY Documents
<1>2. e # NoExc
  BY DEF Exceptions, NoExc
<1> HIDE DEF ce
<1>3. d \in [Files -> Document]
  BY <1>1, Documents, FileNames
<1>4. /\ d[error_file_name(w)] = ce
      /\ \A f \in Files : f # error_file_name(w) => d[f] = NoDoc
  BY FileNames DEF Empty
<1> HIDE DEF d
<1>5. Contents(w, d, e)
  BY <1>1, <1>2, <1>4, FileNames DEF Contents, Owns, ce
<1> QED BY <1>3, <1>5 DEF d, ce

(* What the returning branches record is in order.                         *)
LEMMA SingleContents ==
    ASSUME NEW w \in Workers, NEW f \in Files, NEW d \in Document,
           d # NoDoc, d.by = w, d.refs = {}, Owns(w, f),
           f \in {OUTPUT_FILE_NAME, FUTURES_FILE_NAME, error_file_name(w)}
    PROVE  LET docs == [Empty EXCEPT ![f] = d]
           IN  docs \in [Files -> Document] /\ Contents(w, docs, NoExc)
<1> DEFINE docs == [Empty EXCEPT ![f] = d]
<1>1. docs \in [Files -> Document]
  BY Documents
<1>2. docs[f] = d /\ \A g \in Files : g # f => docs[g] = NoDoc
  BY DEF Empty
<1> HIDE DEF docs
<1>3. Contents(w, docs, NoExc)
  BY <1>2, FileNames DEF Contents, IsIgnored, NoExc
<1> QED BY <1>1, <1>3 DEF docs

LEMMA LiteralContents ==
    ASSUME NEW refs \in SUBSET OutputNames, Rank0 \in Workers
    PROVE  /\ LiteralFiles(Rank0, refs) \in [Files -> Document]
           /\ Contents(Rank0, LiteralFiles(Rank0, refs), NoExc)
<1> DEFINE docs == LiteralFiles(Rank0, refs)
<1>1. docs \in [Files -> Document]
  BY Documents DEF LiteralFiles
<1>2. docs[OUTPUT_FILE_NAME] = Doc(Rank0, "outputs", refs)
  BY FileNames DEF LiteralFiles
<1>3. \A k \in refs : docs[Offloaded(k)] = Doc(Rank0, "literal", {})
  BY FileNames DEF LiteralFiles
<1>4. \A f \in Files : docs[f] # NoDoc =>
            docs[f].by = Rank0 /\ (f = OUTPUT_FILE_NAME \/ \E k \in refs : f = Offloaded(k))
  BY Documents DEF LiteralFiles
<1> HIDE DEF docs
<1>5. \A f \in Files : docs[f] # NoDoc => Owns(Rank0, f) /\ f # DECK_FILE_NAME
  BY <1>4, FileNames DEF Owns, ErrorFiles
<1>6. docs[OUTPUT_FILE_NAME] # NoDoc /\ docs[OUTPUT_FILE_NAME].refs = refs
  BY <1>2, Documents
<1>7. Contents(Rank0, docs, NoExc)
  <2>1. ~IsIgnored(NoExc)
    BY DEF IsIgnored, NoExc
  <2> QED BY <1>3, <1>4, <1>5, <1>6, <2>1 DEF Contents
<1> QED BY <1>1, <1>7 DEF docs

-----------------------------------------------------------------------------
(* Steps.                                                                  *)

(* A container that starts its upload.                                     *)
LEMMA RecordKeeps ==
    ASSUME IInv, NEW w \in Workers, pc[w] \in Before,
           NEW docs \in [Files -> Document], Record(w, docs),
           NEW e \in Exceptions \cup {NoExc}, raised' = [raised EXCEPT ![w] = e],
           UNCHANGED returned, Contents(w, docs, e)
    PROVE  IInv'
<1> USE DEF IInv
<1>1. TypeOK'
  BY DEF TypeOK, Record
<1>2. ASSUME NEW v \in Workers PROVE WorkerInv(v)'
  <2>1. CASE v = w
    <3>1. /\ output_file_dict'[v] = docs /\ raised'[v] = e /\ pc'[v] = "upload"
          /\ exit'[v] = "None" /\ pending'[v] = {f \in Files : docs[f] # NoDoc}
      BY <2>1 DEF Record, TypeOK, WorkerInv
    <3> QED BY <2>1, <3>1 DEF WorkerInv, Before, Late, Uploading, Ended
  <2>2. CASE v # w
    <3>1. /\ output_file_dict'[v] = output_file_dict[v] /\ raised'[v] = raised[v]
          /\ pc'[v] = pc[v] /\ exit'[v] = exit[v] /\ pending'[v] = pending[v]
          /\ task_kind' = task_kind
      BY <2>2 DEF Record, TypeOK
    <3> QED BY <3>1 DEF WorkerInv, Ended
  <2> QED BY <2>1, <2>2
<1>3. ASSUME NEW v \in Workers PROVE UploadedInv(v)'
  <2>1. CASE v = w
    <3>1. output_file_dict'[v] = docs /\ pending'[v] = {f \in Files : docs[f] # NoDoc}
      BY <2>1 DEF Record, TypeOK
    <3> QED BY <3>1 DEF UploadedInv
  <2>2. CASE v # w
    <3>1. /\ output_file_dict'[v] = output_file_dict[v] /\ prefix' = prefix
          /\ pc'[v] = pc[v] /\ exit'[v] = exit[v] /\ pending'[v] = pending[v]
      BY <2>2 DEF Record, TypeOK
    <3> QED BY <3>1 DEF UploadedInv, Ended
  <2> QED BY <2>1, <2>2
<1>4. PrefixInv'
  <2>1. prefix' = prefix
    BY DEF Record
  <2>2. ASSUME NEW f \in Files \ {DECK_FILE_NAME}, prefix[f] # NoDoc
        PROVE  \E v \in Workers : /\ prefix[f] = output_file_dict'[v][f]
                                  /\ output_file_dict'[v][f] # NoDoc
    <3>1. PICK v \in Workers : /\ prefix[f] = output_file_dict[v][f]
                               /\ output_file_dict[v][f] # NoDoc
      BY <2>2 DEF PrefixInv
    <3>2. v # w
      BY <2>2, <3>1 DEF WorkerInv, Empty
    <3>3. output_file_dict'[v] = output_file_dict[v]
      BY <3>2 DEF Record, TypeOK
    <3> QED BY <3>1, <3>3
  <2> QED BY <2>1, <2>2 DEF PrefixInv
<1> QED BY <1>1, <1>2, <1>3, <1>4

(* A step that raises.                                                     *)
LEMMA HandleKeeps ==
    ASSUME IInv, NEW w \in Workers, pc[w] \in Before, NEW e \in Exceptions, Handle(w, e)
    PROVE  IInv'
<1>1. CASE IsIgnored(e)
  <2> USE DEF IInv
  <2>0. Ignore(w) /\ raised' = [raised EXCEPT ![w] = e] /\ UNCHANGED returned
    BY <1>1 DEF Handle
  <2>1. TypeOK'
    BY <2>0 DEF TypeOK, Ignore
  <2>2. ASSUME NEW v \in Workers PROVE WorkerInv(v)' /\ UploadedInv(v)'
    <3>1. CASE v = w
      <4>1. /\ output_file_dict'[v] = Empty /\ raised'[v] = e /\ pc'[v] = "done"
            /\ pending'[v] = pending[v] /\ output_file_dict[v] = Empty
        BY <2>0, <3>1 DEF Ignore, TypeOK, WorkerInv
      <4>2. WorkerInv(v)'
        BY <1>1, <4>1 DEF WorkerInv, Before, Late, Uploading
      <4>3. UploadedInv(v)'
        BY <4>1 DEF UploadedInv, Empty
      <4> QED BY <4>2, <4>3
    <3>2. CASE v # w
      <4>1. /\ output_file_dict'[v] = output_file_dict[v] /\ raised'[v] = raised[v]
            /\ pc'[v] = pc[v] /\ exit'[v] = exit[v] /\ pending'[v] = pending[v]
            /\ prefix' = prefix /\ task_kind' = task_kind
        BY <2>0, <3>2 DEF Ignore, TypeOK
      <4> QED BY <4>1 DEF WorkerInv, UploadedInv, Ended
    <3> QED BY <3>1, <3>2
  <2>3. PrefixInv'
    BY <2>0 DEF PrefixInv, Ignore
  <2> QED BY <2>1, <2>2, <2>3
<1>2. CASE ~IsIgnored(e)
  <2> DEFINE docs == [Empty EXCEPT ![error_file_name(w)] =
                        ContainerError(w, ErrorKind(e), ErrorOrigin(e))]
  <2>0. output_file_dict[w] = Empty
    BY DEF IInv, WorkerInv
  <2>1. Record(w, docs) /\ raised' = [raised EXCEPT ![w] = e] /\ UNCHANGED returned
    BY <1>2, <2>0 DEF Handle
  <2>2. docs \in [Files -> Document] /\ Contents(w, docs, e)
    BY <1>2, ErrorContents
  <2> HIDE DEF docs
  <2> QED BY <2>1, <2>2, RecordKeeps
<1> QED BY <1>1, <1>2

(* A step of the try block that returns: only pc and, of the rest of the   *)
(* state, task_def and returned change.                                    *)
LEMMA GotoKeeps ==
    ASSUME IInv, NEW w \in Workers, NEW from \in Before, NEW to \in Before,
           Goto(w, from, to), to \in Late => w = Rank0,
           task_def' \in [Workers -> BOOLEAN],
           returned' \in [Workers -> {"None", "LiteralMap", "DynamicJobSpec",
                                      "VoidPromise", "Unknown"}]
    PROVE  IInv'
<1> USE DEF IInv
<1>1. TypeOK'
  BY DEF TypeOK, Goto, Before
<1>2. /\ UNCHANGED <<task_kind, raised, output_file_dict, pending, prefix, exit>>
      /\ pc'[w] = to /\ pc[w] = from
      /\ \A v \in Workers : v # w => pc'[v] = pc[v]
  BY DEF Goto, TypeOK
<1>3. ASSUME NEW v \in Workers PROVE WorkerInv(v)' /\ UploadedInv(v)'
  BY <1>2 DEF WorkerInv, UploadedInv, Ended, Before, Uploading
<1>4. PrefixInv'
  BY <1>2 DEF PrefixInv
<1> QED BY <1>1, <1>3, <1>4

(* A step that returns from dispatch_execute with something to upload.     *)
LEMMA ReturnsKeeps ==
    ASSUME IInv, NEW w \in Workers, NEW t, NEW docs \in [Files -> Document],
           Returns(w, t, docs), Contents(w, docs, NoExc)
    PROVE  IInv'
<1>1. pc[w] \in Before /\ raised[w] = NoExc
  BY DEF Returns, Before, IInv, WorkerInv
<1>2. raised' = [raised EXCEPT ![w] = NoExc]
  BY <1>1 DEF Returns, IInv, TypeOK
<1> QED BY <1>1, <1>2, RecordKeeps DEF Returns

LEMMA SingleReturn ==
    ASSUME IInv, NEW w \in Workers, NEW f \in Files, NEW d \in Document,
           d # NoDoc, d.by = w, d.refs = {}, Owns(w, f),
           f \in {OUTPUT_FILE_NAME, FUTURES_FILE_NAME, error_file_name(w)},
           NEW t, Returns(w, t, [Empty EXCEPT ![f] = d])
    PROVE  IInv'
<1> DEFINE docs == [Empty EXCEPT ![f] = d]
<1>1. docs \in [Files -> Document] /\ Contents(w, docs, NoExc)
  BY SingleContents
<1>2. Returns(w, t, docs)
  OBVIOUS
<1> HIDE DEF docs
<1> QED BY <1>1, <1>2, ReturnsKeeps

(* One file is uploaded.                                                   *)
LEMMA PutFileKeeps ==
    ASSUME IInv, NEW w \in Workers, NEW f \in Files, PutFile(w, f)
    PROVE  IInv'
<1> USE DEF IInv
<1> DEFINE d == output_file_dict[w]
<1>1. TypeOK'
  BY DEF TypeOK, PutFile
<1>2. /\ UNCHANGED <<task_kind, pc, raised, output_file_dict, exit>>
      /\ pc[w] = "upload"
      /\ prefix' = [prefix EXCEPT ![f] = d[f]]
      /\ \A v \in Workers : v # w => pending'[v] = pending[v]
      /\ pending'[w] = pending[w] \ {f}
  BY DEF PutFile, TypeOK
<1>3. Contents(w, d, raised[w]) /\ exit[w] = "None"
  BY <1>2 DEF WorkerInv, Uploading
<1>4. ASSUME NEW v \in Workers PROVE WorkerInv(v)'
  <2>1. CASE v = w
    BY <1>2, <1>3, <2>1 DEF WorkerInv, Ended, Before, Late
  <2>2. CASE v # w
    BY <1>2, <2>2 DEF WorkerInv, Ended
  <2> QED BY <2>1, <2>2
<1>5. ASSUME NEW v \in Workers, pc[v] \in Uploading \/ Ended(v), NEW g \in Files,
             output_file_dict[v][g] # NoDoc, g \notin pending'[v]
      PROVE  prefix'[g] = output_file_dict[v][g]
  <2>1. CASE g # f
    <3>1. prefix'[g] = prefix[g]
      BY <1>2, <2>1 DEF TypeOK
    <3>2. g \notin pending[v]
      BY <1>2, <1>5, <2>1
    <3> QED BY <1>5, <3>1, <3>2 DEF UploadedInv
  <2>2. CASE g = f /\ v = w
    BY <1>2, <2>2 DEF TypeOK
  <2>3. CASE g = f /\ v # w
    <3>1. output_file_dict[v] # Empty
      BY <1>5 DEF Empty
    <3>2. Owns(v, f)
      BY <1>5, <2>3, <3>1 DEF WorkerInv, Contents
    <3>3. d[f] = NoDoc
      BY <1>3, <2>3, <3>2, OwnsUnique DEF Contents
    <3>4. f \in pending[w]
      BY DEF PutFile
    <3> QED BY <3>3, <3>4 DEF WorkerInv
  <2> QED BY <2>1, <2>2, <2>3
<1>6. PrefixInv'
  <2>1. d[f] # NoDoc
    BY DEF PutFile, WorkerInv
  <2>2. f # DECK_FILE_NAME
    BY <1>3, <2>1 DEF Contents
  <2>3. prefix'[DECK_FILE_NAME] = prefix[DECK_FILE_NAME]
    BY <1>2, <2>2 DEF TypeOK
  <2>4. ASSUME NEW g \in Files \ {DECK_FILE_NAME}, prefix'[g] # NoDoc
        PROVE  \E v \in Workers : /\ prefix'[g] = output_file_dict[v][g]
                                  /\ output_file_dict[v][g] # NoDoc
    <3>1. CASE g = f
      BY <1>2, <2>1, <3>1 DEF TypeOK
    <3>2. CASE g # f
      <4>1. prefix'[g] = prefix[g]
        BY <1>2, <3>2 DEF TypeOK
      <4> QED BY <2>4, <4>1 DEF PrefixInv
    <3> QED BY <3>1, <3>2
  <2> QED BY <1>2, <2>3, <2>4 DEF PrefixInv
<1> QED BY <1>1, <1>2, <1>4, <1>5, <1>6 DEF UploadedInv, Ended

(* The deck is a file of its own.                                          *)
LEMMA OutputDeckKeeps ==
    ASSUME IInv, NEW w \in Workers, OutputDeck(w)
    PROVE  IInv'
<1> USE DEF IInv
<1>1. /\ UNCHANGED <<task_kind, raised, output_file_dict, pending, exit>>
      /\ pc[w] = "deck" /\ pc'[w] = "exit"
      /\ \A v \in Workers : v # w => pc'[v] = pc[v]
  BY DEF OutputDeck, TypeOK
<1>2. /\ prefix' \in [Files -> Document]
      /\ \A f \in Files : f # DECK_FILE_NAME => prefix'[f] = prefix[f]
      /\ prefix'[DECK_FILE_NAME] = prefix[DECK_FILE_NAME]
            \/ prefix'[DECK_FILE_NAME].type = "deck"
  <2>1. Doc(w, "deck", {}) \in Document /\ Doc(w, "deck", {}).type = "deck"
    BY Documents
  <2> QED BY <2>1, FileNames DEF OutputDeck, TypeOK
<1>3. TypeOK'
  BY <1>2 DEF TypeOK, OutputDeck
<1>4. ASSUME NEW v \in Workers PROVE WorkerInv(v)'
  BY <1>1 DEF WorkerInv, Ended, Before, Late, Uploading
<1>5. ASSUME NEW v \in Workers PROVE UploadedInv(v)'
  <2>1. ASSUME NEW f \in Files, output_file_dict[v][f] # NoDoc PROVE f # DECK_FILE_NAME
    BY <2>1 DEF WorkerInv, Contents, Empty
  <2> QED BY <1>1, <1>2, <2>1 DEF UploadedInv, Ended, Uploading
<1>6. PrefixInv'
  BY <1>1, <1>2 DEF PrefixInv
<1> QED BY <1>3, <1>4, <1>5, <1>6

(* The upload is over, or the process is.                                  *)
LEMMA PutEndsKeeps ==
    ASSUME IInv, NEW w \in Workers, PutEnds(w)
    PROVE  IInv'
<1> USE DEF IInv
<1>1. /\ UNCHANGED <<task_kind, raised, output_file_dict, pending, exit, prefix>>
      /\ pc[w] = "upload" /\ pc'[w] \in {"deck", "exit"} /\ pending[w] = {}
      /\ \A v \in Workers : v # w => pc'[v] = pc[v]
  BY DEF PutEnds, Goto, TypeOK
<1>2. TypeOK'
  BY DEF TypeOK, PutEnds, Goto
<1>3. ASSUME NEW v \in Workers PROVE WorkerInv(v)' /\ UploadedInv(v)'
  BY <1>1 DEF WorkerInv, UploadedInv, Ended, Before, Late, Uploading
<1>4. PrefixInv'
  BY <1>1 DEF PrefixInv
<1> QED BY <1>2, <1>3, <1>4

LEMMA DoneKeeps ==
    ASSUME IInv, NEW w \in Workers, Exit(w) \/ PutRaises(w) \/ Kill(w)
    PROVE  IInv'
<1> USE DEF IInv
<1>1. /\ UNCHANGED <<task_kind, raised, output_file_dict, pending, prefix>>
      /\ pc'[w] = "done"
      /\ exit'[w] \in {"Zero", "One"} => pc[w] = "exit"
      /\ \A v \in Workers : v # w => pc'[v] = pc[v] /\ exit'[v] = exit[v]
  BY DEF Exit, PutRaises, Kill, TypeOK
<1>2. TypeOK'
  <2>1. CASE Exit(w)
    BY <2>1 DEF TypeOK, Exit
  <2>2. CASE PutRaises(w)
    BY <2>2 DEF TypeOK, PutRaises
  <2>3. CASE Kill(w)
    BY <2>3 DEF TypeOK, Kill
  <2> QED BY <2>1, <2>2, <2>3
<1>3. ASSUME NEW v \in Workers PROVE WorkerInv(v)' /\ UploadedInv(v)'
  <2>1. CASE v = w
    BY <1>1, <2>1 DEF WorkerInv, UploadedInv, Ended, Before, Late, Uploading
  <2>2. CASE v # w
    BY <1>1, <2>2 DEF WorkerInv, UploadedInv, Ended
  <2> QED BY <2>1, <2>2
<1>4. PrefixInv'
  BY <1>1 DEF PrefixInv
<1> QED BY <1>2, <1>3, <1>4

-----------------------------------------------------------------------------
(* The invariant.                                                          *)

LEMMA InitInv == Init => IInv
<1> SUFFICES ASSUME Init PROVE IInv
  OBVIOUS
<1>1. TypeOK
  BY Documents DEF Init, TypeOK
<1>2. ASSUME NEW w \in Workers PROVE WorkerInv(w) /\ UploadedInv(w)
  BY DEF Init, WorkerInv, UploadedInv, Ended, Before, Late, Uploading, Empty
<1>3. PrefixInv
  BY FileNames DEF Init, PrefixInv, Empty
<1> QED BY <1>1, <1>2, <1>3 DEF IInv

(* The exceptions of the model are exceptions.                             *)
LEMMA ExceptionsExist ==
    /\ \A v \in Values : User(v) \in Exceptions /\ Other(v) \in Exceptions
    /\ NonRecoverableSystem \in Exceptions
    /\ ConversionErrors \subseteq Exceptions
    /\ {"Plain", "Recoverable"} \subseteq Values
BY DEF Values, User, Other, NonRecoverableSystem, Exceptions, ConversionErrors

LEMMA RunKeeps ==
    ASSUME IInv, NEW w \in Workers, Run(w)
    PROVE  IInv'
<1> DEFINE Raises == \E e \in Exceptions : pc[w] \in Before /\ Handle(w, e)
<1>1. CASE Raises
  BY <1>1, HandleKeeps
<1>2. CASE LoadTask(w) \/ GetInputs(w) \/ PreExecute(w) \/ ConvertInputs(w)
  <2>1. PICK from \in Before, to \in Before \ Late : Goto(w, from, to)
    BY <1>2 DEF LoadTask, GetInputs, PreExecute, ConvertInputs, Before, Late
  <2>2. /\ task_def' \in [Workers -> BOOLEAN]
        /\ UNCHANGED returned
    BY <1>2 DEF LoadTask, GetInputs, PreExecute, ConvertInputs, IInv, TypeOK
  <2> QED BY <2>1, <2>2, GotoKeeps DEF IInv, TypeOK
<1>3. CASE Execute(w)
  <2>1. w = Rank0
    BY <1>3 DEF Execute, Goto, Before, IInv, WorkerInv
  <2>2. Goto(w, "execute", "post_execute") /\ UNCHANGED <<task_def, returned>>
    BY <1>3 DEF Execute
  <2> QED BY <2>1, <2>2, GotoKeeps DEF IInv, TypeOK, Before
<1>4. CASE PostExecute(w) \/ PostExecuteShortCircuit(w) \/ ConvertOutputs(w)
  <2>1. PICK from \in Late, to \in Late : Goto(w, from, to)
    BY <1>4 DEF PostExecute, PostExecuteShortCircuit, ConvertOutputs, Late
  <2>2. w = Rank0
    BY <2>1 DEF Goto, IInv, WorkerInv
  <2>3. task_def' = task_def
    BY <1>4 DEF PostExecute, PostExecuteShortCircuit, ConvertOutputs
  <2>4. \/ returned' = returned
        \/ \E t \in {"LiteralMap", "DynamicJobSpec", "VoidPromise", "Unknown"} :
              returned' = [returned EXCEPT ![w] = t]
    BY <1>4 DEF PostExecute, PostExecuteShortCircuit, ConvertOutputs
  <2>5. returned' \in [Workers -> {"None", "LiteralMap", "DynamicJobSpec",
                                   "VoidPromise", "Unknown"}]
    BY <2>4 DEF IInv, TypeOK
  <2> QED BY <2>1, <2>2, <2>3, <2>5, GotoKeeps DEF IInv, TypeOK, Before, Late
<1>5. CASE RecordVoid(w) \/ RecordSpec(w) \/ RecordUnknown(w)
  <2>1. pc[w] = "record"
    BY <1>5 DEF RecordVoid, RecordSpec, RecordUnknown, Returns
  <2>2. w = Rank0
    BY <2>1 DEF IInv, WorkerInv, Late
  <2>3. /\ Owns(w, OUTPUT_FILE_NAME) /\ Owns(w, FUTURES_FILE_NAME)
        /\ Owns(w, error_file_name(w))
    BY <2>2, FileNames DEF Owns, ErrorFiles
  <2>4. CASE RecordVoid(w)
    <3> DEFINE d == Doc(w, "outputs", {})
    <3>1. d \in Document /\ d # NoDoc /\ d.by = w /\ d.refs = {}
      BY Documents
    <3> HIDE DEF d
    <3>2. \E t : Returns(w, t, [Empty EXCEPT ![OUTPUT_FILE_NAME] = d])
      BY <2>4 DEF RecordVoid, d
    <3> QED BY <2>3, <3>1, <3>2, SingleReturn, FileNames
  <2>5. CASE RecordSpec(w)
    <3> DEFINE d == Doc(w, "futures", {})
    <3>1. d \in Document /\ d # NoDoc /\ d.by = w /\ d.refs = {}
      BY Documents
    <3> HIDE DEF d
    <3>2. \E t : Returns(w, t, [Empty EXCEPT ![FUTURES_FILE_NAME] = d])
      BY <2>5 DEF RecordSpec, d
    <3> QED BY <2>3, <3>1, <3>2, SingleReturn, FileNames
  <2>6. CASE RecordUnknown(w)
    <3>1. ContainerError(w, "RECOVERABLE", "SYSTEM").refs = {}
      BY DEF ContainerError
    <3>2. output_file_dict[w] = Empty
      BY <2>1 DEF IInv, WorkerInv, Before
    <3> QED BY <2>3, <2>6, <3>1, <3>2, SingleReturn, Documents, FileNames DEF RecordUnknown
  <2> QED BY <1>5, <2>4, <2>5, <2>6
<1>6. CASE RecordLiterals(w)
  <2>1. w = Rank0
    BY <1>6 DEF RecordLiterals, Returns, IInv, WorkerInv, Late
  <2>2. PICK size \in [OutputNames -> Sizes] :
            Returns(w, "LiteralMap", LiteralFiles(w, ToOffload(size)))
    BY <1>6 DEF RecordLiterals
  <2>3. ToOffload(size) \in SUBSET OutputNames
    BY DEF ToOffload
  <2>4. /\ LiteralFiles(w, ToOffload(size)) \in [Files -> Document]
        /\ Contents(w, LiteralFiles(w, ToOffload(size)), NoExc)
    BY <2>1, <2>3, LiteralContents
  <2> QED BY <2>2, <2>4, ReturnsKeeps
<1>7. CASE \E f \in Files : PutFile(w, f)
  BY <1>7, PutFileKeeps
<1>8. CASE PutEnds(w) \/ PutRaises(w) \/ OutputDeck(w) \/ Exit(w)
  BY <1>8, PutEndsKeeps, DoneKeeps, OutputDeckKeeps
<1>9. CASE \/ LoadTaskRaises(w) \/ GetInputsRaises(w) \/ PreExecuteRaises(w)
           \/ ConvertInputsRaises(w) \/ ExecuteRaises(w) \/ PostExecuteRaises(w)
           \/ ConvertOutputsRaises(w) \/ RecordLiteralsRaises(w)
  <2>1. Raises
    BY <1>9, ExceptionsExist
       DEF LoadTaskRaises, GetInputsRaises, PreExecuteRaises, ConvertInputsRaises,
           ExecuteRaises, PostExecuteRaises, ConvertOutputsRaises, RecordLiteralsRaises,
           Before
  <2> QED BY <2>1, <1>1
<1> QED BY <1>2, <1>3, <1>4, <1>5, <1>6, <1>7, <1>8, <1>9 DEF Run

LEMMA StutterKeeps == IInv /\ UNCHANGED vars => IInv'
<1> SUFFICES ASSUME IInv, UNCHANGED vars PROVE IInv'
  OBVIOUS
<1>1. TypeOK'
  BY DEF IInv, TypeOK, vars
<1>2. ASSUME NEW w \in Workers PROVE WorkerInv(w)' /\ UploadedInv(w)'
  BY DEF IInv, WorkerInv, UploadedInv, Ended, vars
<1>3. PrefixInv'
  BY DEF IInv, PrefixInv, vars
<1> QED BY <1>1, <1>2, <1>3 DEF IInv

(* IInv is an invariant of the attempt: documents stay with the containers *)
(* that own their files, through every interleaving of uploads and kills.  *)
THEOREM DispatchInvariance == Spec => []IInv
<1>1. IInv /\ [Next]_vars => IInv'
  BY RunKeeps, DoneKeeps, StutterKeeps DEF Next
<1> QED BY InitInv, <1>1, PTL DEF Spec

(* The state of every container is of its type.                            *)
THEOREM DispatchTypeCorrect == Spec => []TypeOK
<1>1. IInv => TypeOK
  BY DEF IInv
<1> QED BY <1>1, DispatchInvariance, PTL

(* _dispatch_execute never ends silently: for any number of containers, one *)
(* that ends by itself has its own report under the shared prefix.         *)
THEOREM NoSilentEnd == Spec => []EndsAreRecorded
<1>1. ASSUME IInv, NEW w \in Workers, Ended(w), ~IsIgnored(raised[w])
      PROVE  IF raised[w] # NoExc
             THEN prefix[error_file_name(w)] =
                    ContainerError(w, ErrorKind(raised[w]), ErrorOrigin(raised[w]))
             ELSE \E f \in {OUTPUT_FILE_NAME, FUTURES_FILE_NAME, error_file_name(w)} :
                    prefix[f].by = w
  <2> DEFINE d == output_file_dict[w]
  <2>1. Contents(w, d, raised[w]) /\ pending[w] = {}
    BY <1>1 DEF IInv, WorkerInv
  <2>2. ASSUME NEW f \in Files, d[f] # NoDoc PROVE prefix[f] = d[f] /\ d[f].by = w
    BY <1>1, <2>1, <2>2 DEF IInv, UploadedInv, Contents
  <2>3. CASE raised[w] # NoExc
    <3>1. d[error_file_name(w)] =
                ContainerError(w, ErrorKind(raised[w]), ErrorOrigin(raised[w]))
      BY <2>1, <2>3 DEF Contents
    <3>2. d[error_file_name(w)] # NoDoc
      BY <1>1, <3>1, Documents DEF IInv, TypeOK
    <3> QED BY <2>2, <2>3, <3>1, <3>2, FileNames
  <2>4. CASE raised[w] = NoExc
    <3>1. PICK f \in {OUTPUT_FILE_NAME, FUTURES_FILE_NAME, error_file_name(w)} :
                d[f] # NoDoc
      BY <2>1, <2>4 DEF Contents
    <3> QED BY <2>2, <2>4, <3>1, FileNames
  <2> QED BY <2>3, <2>4
<1>2. IInv => EndsAreRecorded
  BY <1>1 DEF EndsAreRecorded
<1> QED BY <1>2, DispatchInvariance, PTL

(* A file of a container under the prefix is one of those it records.      *)
LEMMA PrefixOwner ==
    ASSUME IInv, NEW w \in Workers, NEW f \in Files, f # DECK_FILE_NAME, prefix[f].by = w
    PROVE  /\ prefix[f] = output_file_dict[w][f] /\ prefix[f] # NoDoc
           /\ Contents(w, output_file_dict[w], raised[w])
<1>1. prefix[f] # NoDoc
  BY WorkersAssumption, Documents
<1>2. PICK v \in Workers : prefix[f] = output_file_dict[v][f]
  BY <1>1 DEF IInv, PrefixInv
<1>3. output_file_dict[v] # Empty
  BY <1>1, <1>2 DEF Empty
<1>4. Contents(v, output_file_dict[v], raised[v])
  BY <1>3 DEF IInv, WorkerInv
<1>5. v = w
  BY <1>1, <1>2, <1>4 DEF Contents
<1> QED BY <1>1, <1>2, <1>4, <1>5

(* Whoever wrote outputs.pb and ended has uploaded all it refers to.       *)
THEOREM NoDanglingReference == Spec => []OutputsResolve
<1>1. ASSUME IInv, NEW w \in Workers, Ended(w), prefix[OUTPUT_FILE_NAME].by = w,
             NEW k \in prefix[OUTPUT_FILE_NAME].refs
      PROVE  prefix[Offloaded(k)] = Doc(w, "literal", {})
  <2> DEFINE d == output_file_dict[w]
  <2>1. /\ prefix[OUTPUT_FILE_NAME] = d[OUTPUT_FILE_NAME]
        /\ d[OUTPUT_FILE_NAME] # NoDoc /\ Contents(w, d, raised[w])
    BY <1>1, PrefixOwner, FileNames
  <2>2. d[Offloaded(k)] = Doc(w, "literal", {})
    BY <1>1, <2>1 DEF Contents
  <2>3. k \in OutputNames
    BY <1>1, FileNames DEF IInv, TypeOK, Document
  <2>4. d[Offloaded(k)] # NoDoc
    BY <2>2, Documents
  <2>5. pending[w] = {}
    BY <1>1, <2>1 DEF IInv, WorkerInv, Contents
  <2> QED BY <1>1, <2>2, <2>3, <2>4, <2>5, FileNames DEF IInv, UploadedInv
<1>2. IInv => OutputsResolve
  BY <1>1 DEF OutputsResolve
<1> QED BY <1>2, DispatchInvariance, PTL

(* A failed container leaves no results behind.                            *)
THEOREM NoResultsOfFailures == Spec => []FailedLeavesNoOutputs
<1>1. ASSUME IInv, NEW w \in Workers, raised[w] # NoExc, NEW f \in Files, prefix[f].by = w
      PROVE  prefix[f].type \in {"error", "deck"}
  <2>1. CASE f = DECK_FILE_NAME
    <3>1. prefix[f] # NoDoc
      BY <1>1, WorkersAssumption, Documents
    <3> QED BY <2>1, <3>1 , <1>1 DEF IInv, PrefixInv
  <2>2. CASE f # DECK_FILE_NAME
    BY <1>1, <2>2, PrefixOwner DEF Contents
  <2> QED BY <2>1, <2>2
<1>2. IInv => FailedLeavesNoOutputs
  BY <1>1 DEF FailedLeavesNoOutputs
<1> QED BY <1>2, DispatchInvariance, PTL
=============================================================================
