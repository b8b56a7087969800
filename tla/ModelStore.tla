----------------------------- MODULE ModelStore -----------------------------
(***************************************************************************)
(* The files of a model on disk: ensure_gguf, ensure_safetensors and       *)
(* download_file of src/slm.rs.  Files come from a gateway that may refuse *)
(* a connection, ignore a Range request, hide the size, or end a stream at *)
(* any byte, with or without an error; what it sends belongs to the file,  *)
(* whose content is fixed by its address.  The process may die at any step *)
(* and leaves the files as they are.                                       *)
(***************************************************************************)
EXTENDS Integers, Sequences, SequencesExt

CONSTANTS
  SmallFiles,   \* tokenizer.json, and config.json of a safetensors model
  Weights,      \* model.gguf, or the shards
  Size,         \* the length of each file
  MaxAttempts,  \* MAX_ATTEMPTS: 240
  Totals,       \* whether the gateway tells the size: of "known" and "unknown"
  IgnoresRanges \* the gateway may send all of a file of which a range was asked for

Files == SmallFiles \o Weights  \* in the order of their download
StoredFiles == ToSet(SmallFiles) \cup ToSet(Weights)

ASSUME StoreAssumption ==
  /\ {SmallFiles, Weights} \subseteq Seq(StoredFiles) /\ Weights # <<>>
  /\ Size \in [StoredFiles -> Nat \ {0}]
  /\ ToSet(SmallFiles) \cap ToSet(Weights) = {}
  /\ MaxAttempts \in Nat \ {0}
  /\ "known" \in Totals /\ Totals \subseteq {"known", "unknown"}
  /\ IgnoresRanges \in BOOLEAN

VARIABLES
  have,      \* the length of each file, or Absent
  sealed,    \* the .ok file exists
  todo,      \* the places in Files that the running ensure_* has still to download
  attempt,   \* failed attempts at the first of them
  stream     \* the answer that is being read: "none", "known" or "unknown" total

store == <<have, sealed, todo, attempt, stream>>
inMemory == <<todo, attempt, stream>>

Absent == -1
exists(f) == have[f] # Absent
ResumeFrom(f) == IF exists(f) THEN have[f] ELSE 0
Whole(f) == have[f] = Size[f]
WeightsAreWhole == \A w \in ToSet(Weights) : Whole(w)

StoreTypeOK ==
  /\ DOMAIN have = StoredFiles /\ \A f \in StoredFiles : have[f] \in Absent .. Size[f]
  /\ sealed \in BOOLEAN /\ todo \subseteq DOMAIN Files
  /\ attempt \in 0 .. MaxAttempts /\ stream \in Totals \cup {"none"}
  /\ sealed => todo = {}

\* What an operator, or an earlier run, may have left: files deleted from a sealed
\* model, or files that another tool has brought.
StoreInit ==
  /\ \E brought \in SUBSET StoredFiles :
       have = [f \in StoredFiles |-> IF f \in brought THEN Size[f] ELSE Absent]
  /\ sealed \in BOOLEAN
  /\ todo = {} /\ attempt = 0 /\ stream = "none"

Forget == todo' = {} /\ attempt' = 0 /\ stream' = "none"

-----------------------------------------------------------------------------
(* ensure_gguf and ensure_safetensors                                      *)

\* Small files only if they are missing; the weights always, for they resume.
Wanted == {i \in DOMAIN Files : i > Len(SmallFiles) \/ ~exists(Files[i])}

Complete == sealed /\ \A f \in StoredFiles : exists(f)

MutantBeginEnsure ==
  /\ todo' = IF Complete THEN {} ELSE Wanted
  /\ UNCHANGED <<have, sealed, attempt, stream>>

\* The stale seal goes first.
BeginEnsure ==
  /\ IF Complete
     THEN UNCHANGED <<sealed, todo>>
     ELSE sealed' = FALSE /\ todo' = Wanted
  /\ UNCHANGED <<have, attempt, stream>>

Seal ==
  /\ todo = {} /\ ~sealed
  /\ sealed' = TRUE
  /\ UNCHANGED <<have, inMemory>>

Ensured == todo = {} /\ sealed

-----------------------------------------------------------------------------
(* download_file                                                           *)

Connecting == todo # {} /\ stream = "none" /\ attempt < MaxAttempts
Current == Files[Min(todo)]

TryAgain ==
  /\ attempt' = attempt + 1 /\ stream' = "none"
  /\ UNCHANGED <<have, sealed, todo>>

\* No connection, or a status of 400 and above, for which ureq returns an error too.
ConnectFails == Connecting /\ TryAgain

\* 416: nothing is left of the range.  The arm that takes the file as complete is
\* behind the error of call() and never reached.
RangeRefused == Connecting /\ ResumeFrom(Current) = Size[Current] /\ TryAgain

\* 206
Resume(total) ==
  /\ Connecting /\ ResumeFrom(Current) \in 1 .. Size[Current] - 1
  /\ stream' = total
  /\ UNCHANGED <<have, sealed, todo, attempt>>

\* 200: no range was asked for, or it is ignored; the file starts again.
Restart(total) ==
  /\ Connecting /\ (IgnoresRanges \/ ResumeFrom(Current) = 0)
  /\ have' = [have EXCEPT ![Current] = 0]
  /\ stream' = total
  /\ UNCHANGED <<sealed, todo, attempt>>

Receive(length) ==
  /\ stream # "none" /\ have[Current] < length
  /\ have' = [have EXCEPT ![Current] = length]
  /\ UNCHANGED <<sealed, inMemory>>

MutantDownloadEnds(clean) ==
  /\ stream # "none"
  /\ IF clean /\ (stream = "known" => Whole(Current))
     THEN /\ todo' = todo \ {Min(todo)} /\ attempt' = 0 /\ stream' = "none"
          /\ UNCHANGED <<have, sealed>>
     ELSE TryAgain

\* Complete only if the stream ends without an error at a total that is known.
DownloadEnds(clean) ==
  /\ stream # "none"
  /\ IF clean /\ stream = "known" /\ Whole(Current)
     THEN /\ todo' = todo \ {Min(todo)} /\ attempt' = 0 /\ stream' = "none"
          /\ UNCHANGED <<have, sealed>>
     ELSE TryAgain

DownloadFails == todo # {} /\ attempt = MaxAttempts

StoreStep ==
  \/ Seal \/ ConnectFails \/ RangeRefused
  \/ \E total \in Totals : Resume(total) \/ Restart(total)
  \/ stream # "none" /\ \E length \in 1 .. Size[Current] : Receive(length)
  \/ \E clean \in BOOLEAN : DownloadEnds(clean)

-----------------------------------------------------------------------------
(* A gateway that serves now and then: again and again it answers, tells   *)
(* the size, sends what is left and closes without an error.  Whether it   *)
(* honours ranges is its own choice.                                       *)

GatewayServes ==
  /\ SF_store(Resume("known") \/ Restart("known") \/ RangeRefused)
  /\ SF_store(stream = "known" /\ Receive(Size[Current]))
  /\ SF_store(stream = "known" /\ Whole(Current) /\ DownloadEnds(TRUE))
=============================================================================
