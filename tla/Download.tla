------------------------------- MODULE Download -------------------------------
(***************************************************************************)
(* The resumable download (internal/agent/download.go) and the life of the *)
(* staging file it fills, as runUpgrade uses it (internal/agent/agent.go). *)
(*                                                                         *)
(* A file is a sequence of chunks, each tagged with the image and the      *)
(* place in it that it was copied from, so that a gap, a repetition and a  *)
(* mix of two images are all visible.  A missing file and an empty one are *)
(* the same: os.Stat yields offset 0 for both.                             *)
(*                                                                         *)
(* The firmware server may drop, refuse or stall any request, honour Range *)
(* or not, and have another image put behind a URL.  The agent may be      *)
(* killed at any point; its memory is lost and the file stays.             *)
(***************************************************************************)
EXTENDS Integers, Sequences

CONSTANTS
  Images,      \* images; an image stands for its SHA256 digest
  Length,      \* per image: its length in chunks
  Urls,
  Specs,       \* checksum and url of the targets users ask for
  MaxAttempts  \* DownloadOptions.MaxAttempts; 5 in the code

ASSUME DownloadAssumption ==
  /\ Length \in [Images -> Nat \ {0}]
  /\ Specs \subseteq [checksum : Images, url : Urls]
  /\ MaxAttempts \in Nat \ {0}

VARIABLES
  serves,   \* external: the image behind each URL
  files,    \* per checksum: the staging file
  pc,       \* where the transaction is
  spec,     \* its target
  attempt,  \* attempts of DownloadWithResume that failed
  body,     \* the answer being copied: its image and next chunk
  honest,   \* auxiliary: every URL asked for served the image asked for
  calm      \* auxiliary: no fault and no new image since the call began

vars == <<serves, files, pc, spec, attempt, body, honest, calm>>

Chunk == [image : Images, index : Nat \ {0}]
Content(img) ==
  [i \in 1..Length[img] |-> [image |-> img, index |-> i]]

(* Mutation: one staging file for all targets.                             *)
StagingShared(s) == CHOOSE img \in Images : TRUE

(* The staging file is keyed by the checksum.                              *)
Staging(s) == s.checksum

File == files[Staging(spec)]
SetFile(content) == files' = [files EXCEPT ![Staging(spec)] = content]

-----------------------------------------------------------------------------
(* DownloadWithResume and downloadOnce.                                    *)

Begin(s) ==
  /\ pc = "idle"
  /\ pc' = "request"
  /\ spec' = s
  /\ attempt' = 0
  /\ calm' = TRUE
  /\ honest' = (honest /\ serves[s.url] = s.checksum)
  /\ UNCHANGED <<serves, files, body>>

(* Mutation: the loop runs one time too often.                             *)
AttemptsLeftOffByOne == attempt <= MaxAttempts

AttemptsLeft == attempt + 1 < MaxAttempts

(* downloadOnce returned an error: back off and try again, or give up with *)
(* DownloadFailed.  The partial file stays either way.                     *)
AttemptFails ==
  \/ AttemptsLeft /\ pc' = "request" /\ attempt' = attempt + 1
  \/ ~AttemptsLeft /\ pc' = "idle" /\ attempt' = 0

(* No connection, an unexpected status, or no file to write to.            *)
Refused ==
  /\ pc = "request"
  /\ AttemptFails
  /\ calm' = FALSE
  /\ UNCHANGED <<serves, files, spec, body, honest>>

Served == serves[spec.url]

Copy(from) ==
  /\ body' = [image |-> Served, next |-> from]
  /\ pc' = "copy"
  /\ UNCHANGED <<serves, spec, attempt, honest, calm>>

(* 206: the rest is appended to what is there.                             *)
PartialContent ==
  /\ pc = "request"
  /\ Len(File) > 0 /\ Len(File) < Length[Served]
  /\ Copy(Len(File) + 1)
  /\ UNCHANGED files

(* Mutation: the file is opened for append after a 200 too.                *)
FullContentAppends ==
  /\ pc = "request"
  /\ Copy(1)
  /\ UNCHANGED files

(* 200: no Range was sent, or the server ignores it; start over.           *)
FullContent ==
  /\ pc = "request"
  /\ Copy(1)
  /\ SetFile(<< >>)

(* Mutation: the file is kept after a 416.                                 *)
RangeNotSatisfiableKeeps ==
  /\ pc = "request"
  /\ Len(File) >= Length[Served]
  /\ AttemptFails
  /\ UNCHANGED <<serves, files, spec, body, honest, calm>>

(* 416: nothing of the image lies beyond what is there.                    *)
RangeNotSatisfiable ==
  /\ pc = "request"
  /\ Len(File) >= Length[Served]
  /\ SetFile(<< >>)
  /\ AttemptFails
  /\ UNCHANGED <<serves, spec, body, honest, calm>>

(* io.Copy, chunk by chunk to the end of the body.                         *)
CopyChunk ==
  /\ pc = "copy"
  /\ body.next <= Length[body.image]
  /\ SetFile(Append(File, [image |-> body.image, index |-> body.next]))
  /\ body' = [body EXCEPT !.next = @ + 1]
  /\ UNCHANGED <<serves, pc, spec, attempt, honest, calm>>

CopyDone ==
  /\ pc = "copy"
  /\ body.next > Length[body.image]
  /\ pc' = "verify"
  /\ UNCHANGED <<serves, files, spec, attempt, body, honest, calm>>

(* The transfer breaks off, or a write fails.                              *)
Interrupted ==
  /\ pc = "copy"
  /\ AttemptFails
  /\ calm' = FALSE
  /\ UNCHANGED <<serves, files, spec, body, honest>>

(* external: the connection stays open and nothing arrives.                *)
Stall ==
  /\ pc \in {"request", "copy"}
  /\ pc' = "stalled"
  /\ calm' = FALSE
  /\ UNCHANGED <<serves, files, spec, attempt, body, honest>>

(* Mutation: no deadline.                                                  *)
TimeoutNever == FALSE /\ UNCHANGED vars

(* The deadline of the attempt passes.                                     *)
Timeout ==
  /\ pc = "stalled"
  /\ AttemptFails
  /\ UNCHANGED <<serves, files, spec, body, honest, calm>>

-----------------------------------------------------------------------------
(* The rest of runUpgrade, as far as the staging file goes.                *)

(* VerifySHA256; what does not match is removed.                           *)
Verify ==
  /\ pc = "verify"
  /\ IF File = Content(spec.checksum)
     THEN pc' = "flash" /\ UNCHANGED files
     ELSE pc' = "idle" /\ SetFile(<< >>)
  /\ UNCHANGED <<serves, spec, attempt, body, honest, calm>>

(* The file is removed after Confirm and left behind by every failure.     *)
Flash ==
  /\ pc = "flash"
  /\ pc' = "idle"
  /\ SetFile(<< >>) \/ UNCHANGED files
  /\ UNCHANGED <<serves, spec, attempt, body, honest, calm>>

Crash ==
  /\ pc # "idle"
  /\ pc' = "idle"
  /\ UNCHANGED <<serves, files, spec, attempt, body, honest, calm>>

(* external: another image is put behind a URL.  An answer being sent is   *)
(* not affected.                                                           *)
Replace(u, img) ==
  /\ serves[u] # img
  /\ serves' = [serves EXCEPT ![u] = img]
  /\ honest' = FALSE
  /\ calm' = FALSE
  /\ UNCHANGED <<files, pc, spec, attempt, body>>

-----------------------------------------------------------------------------
Init ==
  /\ serves \in [Urls -> Images]
  /\ files = [img \in Images |-> << >>]
  /\ pc = "idle"
  /\ spec \in Specs
  /\ attempt = 0
  /\ body = [image |-> spec.checksum, next |-> 1]
  /\ honest = TRUE
  /\ calm = FALSE

Transaction ==
  \/ Refused \/ PartialContent \/ FullContent \/ RangeNotSatisfiable
  \/ CopyChunk \/ CopyDone \/ Interrupted \/ Timeout
  \/ Verify \/ Flash

Next ==
  \/ \E s \in Specs : Begin(s)
  \/ Transaction
  \/ Stall
  \/ Crash
  \/ \E u \in Urls, img \in Images : Replace(u, img)

Spec == Init /\ [][Next]_vars

(* A running agent makes its next step; a request is answered, refused or  *)
(* runs into its deadline.                                                 *)
FairSpec == Spec /\ WF_vars(Transaction)

-----------------------------------------------------------------------------
(* Properties.                                                             *)

TypeOK ==
  /\ serves \in [Urls -> Images]
  /\ files \in [Images -> Seq(Chunk)]
  /\ pc \in {"idle", "request", "copy", "stalled", "verify", "flash"}
  /\ spec \in Specs
  /\ attempt \in 0..(MaxAttempts - 1)
  /\ body \in [image : Images, next : Nat \ {0}]
  /\ honest \in BOOLEAN
  /\ calm \in BOOLEAN

(* download.go:47, "then we truncate and start over, correct either way":  *)
(* whatever mix of 200, 206 and 416 answers, drops, kills and new images   *)
(* filled a staging file, every chunk in it is where it was in its image.  *)
Gapless ==
  \A img \in Images : \A i \in DOMAIN files[img] : files[img][i].index = i

(* agent.go:227, "a leftover partial download from a different target can  *)
(* never be resumed into this one": while every URL serves the image its   *)
(* Specs name, a download that returns without error has fetched exactly   *)
(* that image, whatever earlier transactions left behind.                  *)
ResumeIsExact == pc = "verify" /\ honest => File = Content(spec.checksum)

(* download.go:104, "416: our partial is bogus": what an earlier           *)
(* transaction left behind, a complete file included, costs one attempt at *)
(* most, so it alone never uses up the attempts of a target.               *)
LeftoverCostsOneAttempt == calm => attempt <= 1

(* download.go:74, "must fail fast enough for the retry/backoff loop to    *)
(* take over, instead of hanging forever": every transaction ends.         *)
Ends == pc # "idle" ~> pc = "idle"
=============================================================================
