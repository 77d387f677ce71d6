---------------------------- MODULE DownloadProofs ----------------------------
(***************************************************************************)
(* Theorems about Download, for all images, lengths, URLs, targets and     *)
(* numbers of attempts.                                                    *)
(***************************************************************************)
EXTENDS Download, TLAPS

(* The answer being copied goes on where the file ends.                    *)
InStep == pc = "copy" => body.next = Len(File) + 1

(* While the URLs are honest, the answer is of the image asked for, every  *)
(* file a prefix of the image it is named after, and a finished one all of *)
(* it.                                                                     *)
Honest ==
  honest =>
    /\ pc # "idle" => Served = spec.checksum
    /\ pc = "copy" => body.image = spec.checksum
    /\ \A img \in Images :
         /\ Len(files[img]) <= Length[img]
         /\ \A i \in DOMAIN files[img] : files[img][i].image = img
    /\ pc = "verify" => Len(File) = Length[spec.checksum]

(* The one attempt that may fail without a fault leaves no file behind.    *)
Calm ==
  /\ pc = "stalled" => ~calm
  /\ calm => attempt <= 1
  /\ calm /\ pc = "request" /\ attempt = 1 => File = << >>

Inv == TypeOK /\ Gapless /\ InStep /\ Honest /\ Calm

-----------------------------------------------------------------------------
LEMMA FileType ==
  ASSUME TypeOK
  PROVE  /\ spec.checksum \in Images /\ spec.url \in Urls
         /\ File \in Seq(Chunk) /\ Served \in Images
BY DownloadAssumption DEF TypeOK, File, Staging, Served

LEMMA SetFileType ==
  ASSUME TypeOK, NEW content \in Seq(Chunk), SetFile(content), spec' = spec
  PROVE  /\ files' \in [Images -> Seq(Chunk)]
         /\ File' = content
         /\ \A img \in Images : img # spec.checksum => files'[img] = files[img]
         /\ files'[spec.checksum] = content
<1>1. spec.checksum \in Images  BY FileType
<1> QED  BY <1>1 DEF TypeOK, SetFile, File, Staging

(* AttemptFails keeps the count in its range.                              *)
LEMMA AttemptRange ==
  ASSUME TypeOK, AttemptFails
  PROVE  /\ attempt' \in 0..(MaxAttempts - 1)
         /\ \/ pc' = "request" /\ attempt' = attempt + 1
            \/ pc' = "idle" /\ attempt' = 0
BY DownloadAssumption DEF TypeOK, AttemptFails, AttemptsLeft

LEMMA InitInv == Init => Inv
<1> SUFFICES ASSUME Init PROVE Inv  OBVIOUS
<1>1. TypeOK
  <2>1. << >> \in Seq(Chunk)  OBVIOUS
  <2>2. files \in [Images -> Seq(Chunk)]  BY <2>1 DEF Init
  <2>3. attempt \in 0..(MaxAttempts - 1)  BY DownloadAssumption DEF Init
  <2>4. body \in [image : Images, next : Nat \ {0}]
    BY DownloadAssumption DEF Init
  <2> QED  BY <2>2, <2>3, <2>4, DownloadAssumption DEF Init, TypeOK
<1>2. \A img \in Images : files[img] = << >>  BY DEF Init
<1> QED
  BY <1>1, <1>2, DownloadAssumption
  DEF Init, Inv, Gapless, InStep, Honest, Calm

(* An empty file breaks nothing.                                           *)
LEMMA EmptyFile ==
  ASSUME Inv, SetFile(<< >>), spec' = spec
  PROVE  /\ files' \in [Images -> Seq(Chunk)] /\ File' = << >>
         /\ Gapless'
         /\ honest => \A img \in Images :
              /\ Len(files'[img]) <= Length[img]
              /\ \A i \in DOMAIN files'[img] : files'[img][i].image = img
<1>0. TypeOK /\ << >> \in Seq(Chunk)  BY DEF Inv
<1>1. /\ files' \in [Images -> Seq(Chunk)] /\ File' = << >>
      /\ \A img \in Images : img # spec.checksum => files'[img] = files[img]
      /\ files'[spec.checksum] = << >>
  BY <1>0, SetFileType
<1>2. Gapless'  BY <1>1 DEF Inv, Gapless
<1>3. honest => \A img \in Images :
        /\ Len(files'[img]) <= Length[img]
        /\ \A i \in DOMAIN files'[img] : files'[img][i].image = img
  BY <1>1, DownloadAssumption DEF Inv, Honest
<1> QED  BY <1>1, <1>2, <1>3

LEMMA StepInv == Inv /\ [Next]_vars => Inv'
<1> SUFFICES ASSUME Inv, [Next]_vars PROVE Inv'  OBVIOUS
<1> USE DEF Inv
<1>0. /\ spec.checksum \in Images /\ spec.url \in Urls
      /\ File \in Seq(Chunk) /\ Served \in Images
      /\ Length[Served] \in Nat \ {0} /\ Len(File) \in Nat
  BY FileType, DownloadAssumption
<1>1. CASE \E s \in Specs : Begin(s)
  <2>1. PICK s \in Specs : Begin(s)  BY <1>1
  <2>2. /\ pc' = "request" /\ spec' = s /\ attempt' = 0 /\ calm' = TRUE
        /\ honest' = (honest /\ serves[s.url] = s.checksum)
        /\ UNCHANGED <<serves, files, body>>
    BY <2>1 DEF Begin
  <2>3. TypeOK'  BY <2>2, DownloadAssumption DEF TypeOK
  <2>4. Gapless' /\ InStep' /\ Calm'  BY <2>2 DEF Gapless, InStep, Calm
  <2>5. Honest'  BY <2>2 DEF Honest, Served
  <2> QED  BY <2>3, <2>4, <2>5
<1>2. CASE Refused \/ Interrupted \/ Timeout
  <2>1. /\ AttemptFails /\ ~calm'
        /\ UNCHANGED <<serves, files, spec, body, honest>>
        /\ pc # "idle"
    BY <1>2 DEF Refused, Interrupted, Timeout, Calm
  <2>2. /\ attempt' \in 0..(MaxAttempts - 1)
        /\ \/ pc' = "request" /\ attempt' = attempt + 1
           \/ pc' = "idle" /\ attempt' = 0
    BY <2>1, AttemptRange
  <2>3. calm' \in BOOLEAN
    BY <1>2 DEF Refused, Interrupted, Timeout, TypeOK
  <2>4. TypeOK'  BY <2>1, <2>2, <2>3 DEF TypeOK
  <2>5. Gapless' /\ InStep' /\ Calm'
    BY <2>1, <2>2 DEF Gapless, InStep, Calm
  <2>6. Honest'  BY <2>1, <2>2 DEF Honest, Served
  <2> QED  BY <2>4, <2>5, <2>6
<1>3. CASE PartialContent
  <2>1. /\ pc = "request" /\ pc' = "copy"
        /\ body' = [image |-> Served, next |-> Len(File) + 1]
        /\ UNCHANGED <<serves, files, spec, attempt, honest, calm>>
    BY <1>3 DEF PartialContent, Copy
  <2>2. File' = File  BY <2>1 DEF File, Staging
  <2>3. TypeOK'  BY <2>1, <1>0 DEF TypeOK
  <2>4. Gapless' /\ InStep' /\ Calm'
    BY <2>1, <2>2 DEF Gapless, InStep, Calm
  <2>5. Honest'  BY <2>1 DEF Honest, Served
  <2> QED  BY <2>3, <2>4, <2>5
<1>4. CASE FullContent
  <2>1. /\ pc = "request" /\ pc' = "copy" /\ SetFile(<< >>)
        /\ body' = [image |-> Served, next |-> 1]
        /\ UNCHANGED <<serves, spec, attempt, honest, calm>>
    BY <1>4 DEF FullContent, Copy
  <2>2. /\ files' \in [Images -> Seq(Chunk)] /\ File' = << >>
        /\ Gapless'
        /\ honest => \A img \in Images :
             /\ Len(files'[img]) <= Length[img]
             /\ \A i \in DOMAIN files'[img] : files'[img][i].image = img
    BY <2>1, EmptyFile
  <2>3. TypeOK'  BY <2>1, <2>2, <1>0 DEF TypeOK
  <2>4. InStep' /\ Calm'  BY <2>1, <2>2 DEF InStep, Calm
  <2>5. Honest'  BY <2>1, <2>2 DEF Honest, Served
  <2> QED  BY <2>2, <2>3, <2>4, <2>5
<1>5. CASE RangeNotSatisfiable
  <2>1. /\ pc = "request" /\ Len(File) >= Length[Served]
        /\ SetFile(<< >>) /\ AttemptFails
        /\ UNCHANGED <<serves, spec, body, honest, calm>>
    BY <1>5 DEF RangeNotSatisfiable
  <2>2. /\ files' \in [Images -> Seq(Chunk)] /\ File' = << >>
        /\ Gapless'
        /\ honest => \A img \in Images :
             /\ Len(files'[img]) <= Length[img]
             /\ \A i \in DOMAIN files'[img] : files'[img][i].image = img
    BY <2>1, EmptyFile
  <2>3. /\ attempt' \in 0..(MaxAttempts - 1)
        /\ \/ pc' = "request" /\ attempt' = attempt + 1
           \/ pc' = "idle" /\ attempt' = 0
    BY <2>1, AttemptRange
  <2>4. calm => attempt = 0
    <3>1. Len(File) # 0  BY <2>1, <1>0
    <3>2. File # << >>  BY <3>1
    <3> QED  BY <2>1, <3>2 DEF Calm, TypeOK
  <2>5. TypeOK'  BY <2>1, <2>2, <2>3 DEF TypeOK
  <2>6. InStep' /\ Calm'  BY <2>1, <2>2, <2>3, <2>4 DEF InStep, Calm
  <2>7. Honest'  BY <2>1, <2>2, <2>3 DEF Honest, Served
  <2> QED  BY <2>2, <2>5, <2>6, <2>7
<1>6. CASE CopyChunk
  <2> DEFINE chunk == [image |-> body.image, index |-> body.next]
             content == Append(File, chunk)
  <2>1. /\ pc = "copy" /\ body.next <= Length[body.image]
        /\ SetFile(content) /\ body' = [body EXCEPT !.next = @ + 1]
        /\ UNCHANGED <<serves, pc, spec, attempt, honest, calm>>
    BY <1>6 DEF CopyChunk
  <2>2. /\ body.next = Len(File) + 1 /\ body.image \in Images
        /\ chunk \in Chunk
    BY <2>1, <1>0 DEF InStep, TypeOK, Chunk
  <2>3. /\ content \in Seq(Chunk) /\ Len(content) = Len(File) + 1
        /\ content[Len(File) + 1] = chunk
        /\ \A i \in 1..Len(File) : content[i] = File[i]
    BY <2>2, <1>0
  <2> HIDE DEF content
  <2>4. /\ files' \in [Images -> Seq(Chunk)] /\ File' = content
        /\ \A img \in Images : img # spec.checksum => files'[img] = files[img]
        /\ files'[spec.checksum] = content
    BY <2>1, <2>3, SetFileType
  <2>5. File = files[spec.checksum]  BY DEF File, Staging
  <2>6. TypeOK'
    <3>1. body' \in [image : Images, next : Nat \ {0}]
      <4>1. body \in [image : Images, next : Nat \ {0}]  BY DEF TypeOK
      <4>2. body.next + 1 \in Nat \ {0}  BY <4>1
      <4> QED  BY <4>1, <4>2, <2>1
    <3> QED  BY <2>1, <2>4, <3>1 DEF TypeOK
  <2>7. Gapless'
    <3>1. ASSUME NEW i \in 1..Len(content) PROVE content[i].index = i
      <4>1. CASE i = Len(File) + 1  BY <4>1, <2>2, <2>3
      <4>2. CASE i # Len(File) + 1
        <5>1. i \in 1..Len(File)  BY <4>2, <2>3, <1>0
        <5>2. File[i].index = i  BY <5>1, <2>5, <1>0 DEF Gapless
        <5> QED  BY <5>1, <5>2, <2>3
      <4> QED  BY <4>1, <4>2
    <3>2. DOMAIN content = 1..Len(content)  BY <2>3
    <3> QED  BY <2>4, <3>1, <3>2 DEF Gapless
  <2>8. InStep'
    <3>1. body'.next = body.next + 1  BY <2>1 DEF TypeOK
    <3> QED  BY <3>1, <2>2, <2>3, <2>4 DEF InStep
  <2>9. Calm'  BY <2>1 DEF Calm
  <2>10. Honest'
    <3> SUFFICES ASSUME honest PROVE Honest'  BY <2>1 DEF Honest
    <3>1. /\ body.image = spec.checksum /\ Served = spec.checksum
          /\ body'.image = body.image
      BY <2>1 DEF Honest, TypeOK
    <3>2. Len(content) <= Length[spec.checksum]
      BY <2>1, <2>2, <2>3, <3>1
    <3>3. ASSUME NEW i \in 1..Len(content)
          PROVE  content[i].image = spec.checksum
      <4>1. CASE i = Len(File) + 1  BY <4>1, <2>3, <3>1
      <4>2. CASE i # Len(File) + 1
        <5>1. i \in 1..Len(File)  BY <4>2, <2>3, <1>0
        <5>2. File[i].image = spec.checksum
          BY <5>1, <2>5, <1>0 DEF Honest
        <5> QED  BY <5>1, <5>2, <2>3
      <4> QED  BY <4>1, <4>2
    <3>4. DOMAIN content = 1..Len(content)  BY <2>3
    <3>5. \A img \in Images :
            /\ Len(files'[img]) <= Length[img]
            /\ \A i \in DOMAIN files'[img] : files'[img][i].image = img
      BY <2>4, <3>2, <3>3, <3>4 DEF Honest
    <3> QED  BY <2>1, <3>1, <3>5 DEF Honest, Served
  <2> QED  BY <2>6, <2>7, <2>8, <2>9, <2>10
<1>7. CASE CopyDone
  <2>1. /\ pc = "copy" /\ pc' = "verify" /\ body.next > Length[body.image]
        /\ UNCHANGED <<serves, files, spec, attempt, body, honest, calm>>
    BY <1>7 DEF CopyDone
  <2>2. File' = File /\ File = files[spec.checksum]
    BY <2>1 DEF File, Staging
  <2>3. honest => Len(File) = Length[spec.checksum]
    <3> SUFFICES ASSUME honest PROVE Len(File) = Length[spec.checksum]
      OBVIOUS
    <3>1. Len(File) + 1 > Length[spec.checksum]
      BY <2>1 DEF InStep, Honest
    <3>2. Len(File) <= Length[spec.checksum]  BY <2>2, <1>0 DEF Honest
    <3>3. Length[spec.checksum] \in Nat  BY <1>0, DownloadAssumption
    <3> QED  BY <3>1, <3>2, <3>3, <1>0
  <2>4. TypeOK'  BY <2>1 DEF TypeOK
  <2>5. Gapless' /\ InStep' /\ Calm'  BY <2>1 DEF Gapless, InStep, Calm
  <2>6. Honest'  BY <2>1, <2>2, <2>3 DEF Honest, Served
  <2> QED  BY <2>4, <2>5, <2>6
<1>8. CASE Stall
  <2>1. /\ pc' = "stalled" /\ ~calm' /\ calm' \in BOOLEAN /\ pc # "idle"
        /\ UNCHANGED <<serves, files, spec, attempt, body, honest>>
    BY <1>8 DEF Stall
  <2>2. TypeOK'  BY <2>1 DEF TypeOK
  <2>3. Gapless' /\ InStep' /\ Calm'  BY <2>1 DEF Gapless, InStep, Calm
  <2>4. Honest'  BY <2>1 DEF Honest, Served
  <2> QED  BY <2>2, <2>3, <2>4
<1>9. CASE Verify \/ Flash \/ Crash
  <2>1. /\ pc' \in {"idle", "flash"} /\ pc # "idle"
        /\ files' = files \/ SetFile(<< >>)
        /\ UNCHANGED <<serves, spec, attempt, body, honest, calm>>
    BY <1>9 DEF Verify, Flash, Crash
  <2>2. /\ files' \in [Images -> Seq(Chunk)] /\ Gapless'
        /\ honest => \A img \in Images :
             /\ Len(files'[img]) <= Length[img]
             /\ \A i \in DOMAIN files'[img] : files'[img][i].image = img
    <3>1. CASE SetFile(<< >>)  BY <2>1, <3>1, EmptyFile
    <3>2. CASE files' = files  BY <3>2 DEF TypeOK, Gapless, Honest
    <3> QED  BY <2>1, <3>1, <3>2
  <2>3. TypeOK'  BY <2>1, <2>2 DEF TypeOK
  <2>4. InStep' /\ Calm'  BY <2>1 DEF InStep, Calm
  <2>5. Honest'  BY <2>1, <2>2 DEF Honest, Served
  <2> QED  BY <2>2, <2>3, <2>4, <2>5
<1>10. CASE \E u \in Urls, img \in Images : Replace(u, img)
  <2>1. /\ serves' \in [Urls -> Images]
        /\ honest' = FALSE /\ calm' = FALSE
        /\ UNCHANGED <<files, pc, spec, attempt, body>>
    BY <1>10 DEF Replace, TypeOK
  <2>2. File' = File  BY <2>1 DEF File, Staging
  <2>3. TypeOK'  BY <2>1 DEF TypeOK
  <2>4. Gapless' /\ InStep' /\ Calm' /\ Honest'
    BY <2>1, <2>2 DEF Gapless, InStep, Calm, Honest
  <2> QED  BY <2>3, <2>4
<1>11. CASE UNCHANGED vars
  <2>1. UNCHANGED <<serves, files, pc, spec, attempt, body, honest, calm>>
    BY <1>11 DEF vars
  <2>2. File' = File /\ Served' = Served  BY <2>1 DEF File, Staging, Served
  <2> QED  BY <2>1, <2>2 DEF TypeOK, Gapless, InStep, Calm, Honest
<1> QED
  BY <1>1, <1>2, <1>3, <1>4, <1>5, <1>6, <1>7, <1>8, <1>9, <1>10, <1>11
  DEF Next, Transaction

LEMMA InvHolds == Spec => []Inv
<1> QED  BY InitInv, StepInv, PTL DEF Spec

-----------------------------------------------------------------------------
(* Type correctness; an attempt beyond the last is never made.             *)
THEOREM TypeCorrect == Spec => []TypeOK
<1>1. Inv => TypeOK  BY DEF Inv
<1> QED  BY <1>1, InvHolds, PTL

(* download.go:47: no answer is ever written at the wrong place.           *)
THEOREM FilesAreGapless == Spec => []Gapless
<1>1. Inv => Gapless  BY DEF Inv
<1> QED  BY <1>1, InvHolds, PTL

(* agent.go:227: from honest URLs, what the download returns is the image, *)
(* whatever earlier transactions left behind.                              *)
THEOREM ResumesExactly == Spec => []ResumeIsExact
<1>1. Inv => ResumeIsExact
  <2> SUFFICES ASSUME Inv, pc = "verify", honest
               PROVE  File = Content(spec.checksum)
    BY DEF ResumeIsExact
  <2>1. /\ spec.checksum \in Images /\ File \in Seq(Chunk)
        /\ File = files[spec.checksum]
    BY FileType DEF Inv, File, Staging
  <2>2. Len(File) = Length[spec.checksum]  BY DEF Inv, Honest
  <2>3. /\ DOMAIN File = 1..Length[spec.checksum]
        /\ File = [i \in 1..Length[spec.checksum] |-> File[i]]
    BY <2>1, <2>2
  <2>4. ASSUME NEW i \in 1..Length[spec.checksum]
        PROVE  File[i] = [image |-> spec.checksum, index |-> i]
    <3>1. File[i].image = spec.checksum /\ File[i].index = i
      BY <2>1, <2>3 DEF Inv, Honest, Gapless
    <3>2. i \in 1..Len(File)  BY <2>2
    <3>3. File[i] \in Chunk  BY <3>2, <2>1
    <3> QED  BY <3>1, <3>3 DEF Chunk
  <2> QED  BY <2>3, <2>4 DEF Content
<1> QED  BY <1>1, InvHolds, PTL

(* download.go:104: a leftover file costs at most one attempt.             *)
THEOREM LeftoversAreCheap == Spec => []LeftoverCostsOneAttempt
<1>1. Inv => LeftoverCostsOneAttempt
  BY DEF Inv, Calm, LeftoverCostsOneAttempt
<1> QED  BY <1>1, InvHolds, PTL
=============================================================================
