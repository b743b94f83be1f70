--------------------------- MODULE ResumableUpload ---------------------------
(***************************************************************************)
(* A resumable GridFS upload of one id: the session in <bucket>.uploads,   *)
(* the chunks and the file, each in a collection of its own, and calls of  *)
(* begin, append, finalize and abort whose reads and writes interleave.    *)
(* A call that stops half way (a crash) is one that takes no further step. *)
(***************************************************************************)
EXTENDS Integers, FiniteSets

CONSTANTS Begins, Appends, Finalizes, Aborts,  \* the calls
          Chunks,     \* the number of chunks the session's length needs
          FromOf,     \* fromChunk of each append
          CountOf,    \* the chunks its payload fills
          GoodOf,     \* whether its bytes are those of the session's sha256
          MayOverlap  \* whether an abort may run while a finalize does

ASSUME UploadAssumption ==
  /\ Begins \cap (Appends \cup Finalizes \cup Aborts) = {}
  /\ Appends \cap (Finalizes \cup Aborts) = {} /\ Finalizes \cap Aborts = {}
  /\ Chunks \in Nat \ {0} /\ MayOverlap \in BOOLEAN /\ GoodOf \in [Appends -> BOOLEAN]
  /\ FromOf \in [Appends -> Nat] /\ CountOf \in [Appends -> Nat \ {0}]
  /\ \A a \in Appends : FromOf[a] + CountOf[a] <= Chunks

Index == 0..(Chunks - 1)

VARIABLES
  session,  \* whether a pending session exists
  stored,   \* the chunk of each index: "none", "good" or "bad"
  visible,  \* whether the files document exists
  uploading, \* where each call is
  prefix,   \* contiguousNext as each append last read it
  pos,      \* the index of the chunk each append writes next
  cleared   \* history: the appends during or after which chunks were deleted

uploadVars == <<session, stored, visible, uploading, prefix, pos, cleared>>

BytesOf(a) == IF GoodOf[a] THEN "good" ELSE "bad"
LastOf(a) == FromOf[a] + CountOf[a] - 1
Contiguous == CHOOSE n \in 0..Chunks : /\ \A i \in 0..(n - 1) : stored[i] # "none"
                                       /\ n = Chunks \/ stored[n] = "none"
At(c, from, to) == uploading[c] = from /\ uploading' = [uploading EXCEPT ![c] = to]

UploadTypeOK ==
  /\ session \in BOOLEAN /\ visible \in BOOLEAN
  /\ stored \in [Index -> {"none", "good", "bad"}]
  /\ uploading \in [Begins \cup Appends \cup Finalizes \cup Aborts ->
                {"idle", "pending", "write", "unseen", "read", "clear", "drop", "done", "failed"}]
  /\ prefix \in [Appends -> 0..Chunks] /\ pos \in [Appends -> 0..Chunks] /\ cleared \subseteq Appends

UploadInit == /\ session = FALSE /\ visible = FALSE
              /\ stored = [i \in Index |-> "none"]
              /\ uploading = [c \in Begins \cup Appends \cup Finalizes \cup Aborts |-> "idle"]
              /\ prefix = [a \in Appends |-> 0] /\ pos = FromOf /\ cleared = {}

-----------------------------------------------------------------------------
(* begin, and the TTL of the session.                                      *)

BeginChecked(b) ==
  /\ At(b, "idle", IF visible THEN "failed" ELSE "pending")
  /\ UNCHANGED <<session, stored, visible, prefix, pos, cleared>>

\* Another session of the id is found, or makes the insert a duplicate.
BeginInserts(b) ==
  /\ At(b, "pending", IF session THEN "failed" ELSE "done")
  /\ session' = TRUE
  /\ UNCHANGED <<stored, visible, prefix, pos, cleared>>

\* The TTL deletes the session and leaves the chunks.
SessionExpires ==
  /\ session /\ session' = FALSE
  /\ UNCHANGED <<stored, visible, uploading, prefix, pos, cleared>>

-----------------------------------------------------------------------------
(* appendChunks.                                                           *)

AppendCall(a) ==
  /\ At(a, "idle", IF session THEN "pending" ELSE "failed")
  /\ UNCHANGED <<session, stored, visible, prefix, pos, cleared>>

\* A gap, or a payload that overlaps the stored prefix and goes beyond it, is
\* refused.
AppendPlanned(a) ==
  /\ At(a, "pending", IF \/ FromOf[a] > Contiguous
                         \/ LastOf(a) >= Contiguous /\ FromOf[a] # Contiguous
                      THEN "failed" ELSE "write")
  /\ prefix' = [prefix EXCEPT ![a] = Contiguous]
  /\ UNCHANGED <<session, stored, visible, pos, cleared>>

\* Mutated form: a chunk that exists already is taken for this one.
TakenBlind(a, i) == TRUE

\* A chunk that exists must hold the same bytes.
Taken(a, i) == stored[i] = BytesOf(a)

\* One chunk: compared if it belongs to the prefix, else inserted, or compared
\* if somebody inserted it first.
AppendWrites(a) ==
  /\ uploading[a] = "write" /\ pos[a] <= LastOf(a)
  /\ IF pos[a] >= prefix[a] /\ stored[pos[a]] = "none"
     THEN /\ stored' = [stored EXCEPT ![pos[a]] = BytesOf(a)]
          /\ pos' = [pos EXCEPT ![a] = @ + 1] /\ UNCHANGED uploading
     ELSE /\ IF Taken(a, pos[a]) THEN pos' = [pos EXCEPT ![a] = @ + 1] /\ UNCHANGED uploading
             ELSE UNCHANGED pos /\ At(a, "write", "failed")
          /\ UNCHANGED stored
  /\ UNCHANGED <<session, visible, prefix, cleared>>

\* The prefix is read again, stored in the session if there still is one, and
\* answered.
AppendEnds(a) ==
  /\ pos[a] > LastOf(a) /\ At(a, "write", "done")
  /\ prefix' = [prefix EXCEPT ![a] = Contiguous]
  /\ UNCHANGED <<session, stored, visible, pos, cleared>>

-----------------------------------------------------------------------------
(* finalizeResumableUpload.                                                *)

Finalizing == \E f \in Finalizes : uploading[f] \in {"pending", "unseen", "read"}
Aborting == \E b \in Aborts : uploading[b] \in {"pending", "clear", "drop"}

FinalizeCall(f) ==
  /\ MayOverlap \/ ~Aborting
  /\ At(f, "idle", IF session THEN "pending" ELSE "failed")
  /\ UNCHANGED <<session, stored, visible, prefix, pos, cleared>>

FinalizeUnseen(f) ==
  /\ At(f, "pending", IF visible THEN "failed" ELSE "unseen")
  /\ UNCHANGED <<session, stored, visible, prefix, pos, cleared>>

\* All chunks are there, of the right length and digest.
FinalizeReads(f) ==
  /\ At(f, "unseen", IF \A i \in Index : stored[i] = "good" THEN "read" ELSE "failed")
  /\ UNCHANGED <<session, stored, visible, prefix, pos, cleared>>

FinalizeInserts(f) ==
  /\ At(f, "read", IF visible THEN "failed" ELSE "drop") /\ visible' = TRUE
  /\ UNCHANGED <<session, stored, prefix, pos, cleared>>

FinalizeEnds(f) ==
  /\ At(f, "drop", "done") /\ session' = FALSE
  /\ UNCHANGED <<stored, visible, prefix, pos, cleared>>

-----------------------------------------------------------------------------
(* abortResumableUpload.                                                   *)

AbortCall(b) ==
  /\ MayOverlap \/ ~Finalizing
  /\ At(b, "idle", IF session THEN "pending" ELSE "done")
  /\ UNCHANGED <<session, stored, visible, prefix, pos, cleared>>

AbortLooks(b) ==
  /\ At(b, "pending", IF visible THEN "drop" ELSE "clear")
  /\ UNCHANGED <<session, stored, visible, prefix, pos, cleared>>

AbortClears(b) ==
  /\ At(b, "clear", "drop")
  /\ stored' = [i \in Index |-> "none"]
  /\ cleared' = {a \in Appends : uploading[a] # "idle"}
  /\ UNCHANGED <<session, visible, prefix, pos>>

AbortEnds(b) ==
  /\ At(b, "drop", "done") /\ session' = FALSE
  /\ UNCHANGED <<stored, visible, prefix, pos, cleared>>

UploadNext ==
  \/ SessionExpires
  \/ \E b \in Begins : BeginChecked(b) \/ BeginInserts(b)
  \/ \E a \in Appends : AppendCall(a) \/ AppendPlanned(a) \/ AppendWrites(a) \/ AppendEnds(a)
  \/ \E f \in Finalizes : \/ FinalizeCall(f) \/ FinalizeUnseen(f) \/ FinalizeReads(f)
                          \/ FinalizeInserts(f) \/ FinalizeEnds(f)
  \/ \E b \in Aborts : AbortCall(b) \/ AbortLooks(b) \/ AbortClears(b) \/ AbortEnds(b)

UploadSpec == UploadInit /\ [][UploadNext]_uploadVars

-----------------------------------------------------------------------------
(* Properties.                                                             *)

(* A visible file has all its chunks, with the bytes of its digest, however *)
(* many writers appended to it and whatever stopped half way or expired.    *)
FileIsWhole == visible => \A i \in Index : stored[i] = "good"

(* What an append was told to be stored is stored, with the bytes it sent,  *)
(* whoever else was appending, until chunks are deleted by an abort.        *)
AcceptedIsStored == \A a \in Appends \ cleared :
  uploading[a] = "done" => /\ \A i \in FromOf[a]..LastOf(a) : stored[i] = BytesOf(a)
                       /\ prefix[a] > LastOf(a) /\ \A i \in 0..(prefix[a] - 1) : stored[i] # "none"

(* What is visible is whole, and what was acknowledged is there.            *)
UploadIsWhole == UploadTypeOK /\ FileIsWhole /\ AcceptedIsStored
=============================================================================
