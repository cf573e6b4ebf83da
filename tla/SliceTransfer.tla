--------------------------- MODULE SliceTransfer ---------------------------
(***************************************************************************)
(* The content of a video on its way through the system.  The upload page  *)
(* cuts it into slices, encrypts each and posts one after the other; the   *)
(* video storage appends them to one file and, with the last one, records  *)
(* the size of an encrypted slice; the download page asks for the slices   *)
(* by number, the storage computes where each begins and ends, and the     *)
(* page decrypts them and appends them to the file it saves.               *)
(*                                                                         *)
(* Bytes are modelled by where they come from.  The Java code computes in  *)
(* int, here from -Half to Half - 1.  Which slice a failing upload leaves  *)
(* in the database is modelled by VideoStorage; here a post is one step.   *)
(***************************************************************************)
EXTENDS Integers, Sequences, FiniteSets

CONSTANTS
  Videos,      \* uploads, each of one video
  Tabs,        \* pages that download
  Chrome,      \* those of them that run in Chrome
  Sizes,       \* for each video, the sizes it may have, in bytes
  FileName,    \* for each video, the name its file had on the user's disk
  SizeSlice,   \* bytes in a slice
  Cipher,      \* bytes in a block of the cipher
  Half,        \* one more than the largest int
  MaxClicks,   \* bound: downloads started
  MaxFaults    \* bound: failures

ASSUME Bounds ==
  /\ Chrome \subseteq Tabs
  /\ Sizes \in [Videos -> SUBSET Nat]
  /\ SizeSlice \in Nat \ {0} /\ Cipher \in Nat \ {0} /\ Half \in Nat \ {0}

VARIABLES
  size,        \* for each video, its size
  posting,     \* for each upload, what it does
  current,     \* for each upload, the slice it posts next
  disk,        \* for each video, the bytes of its encrypted file
  row,         \* for each video, what the database knows of it
  pc,          \* for each tab, what its download does next
  loc,         \* for each tab, the variables of its download
  temp,        \* Chrome: for each file name, the file in the temporary file system
  saved,       \* for each tab, what the last download gave to the user
  disturbed,   \* tabs whose temporary file another tab has written
  clicks, faults

uploadVars == <<size, posting, current>>
serverVars == <<disk, row>>
tabVars == <<pc, loc, temp, saved, disturbed, clicks>>
vars == <<size, posting, current, disk, row, pc, loc, temp, saved, disturbed, clicks, faults>>

Fault == faults < MaxFaults /\ faults' = faults + 1

Names == {FileName[v] : v \in Videos}

(***************************************************************************)
(* Slices and their ciphertexts.  A cipher in CBC mode fills the last block *)
(* and adds a whole one to a full block; what is decrypted with the wrong  *)
(* key, or is not all of a ciphertext, has no valid filling.               *)
(***************************************************************************)
Byte(v, i) == [video |-> v, at |-> i]
Content(v) == [i \in 1 .. size[v] |-> Byte(v, i)]

NumSlice(v) ==
  IF size[v] % SizeSlice = 0 THEN size[v] \div SizeSlice ELSE size[v] \div SizeSlice + 1

\* The last slice ends with the file; one more, after a full one, is empty.
SliceLength(v, k) ==
  LET start == k * SizeSlice
  IN  IF start + SizeSlice >= size[v] THEN size[v] - start ELSE SizeSlice

Slice(v, k) == [i \in 1 .. SliceLength(v, k) |-> Byte(v, k * SizeSlice + i)]

Padded(n) == (n \div Cipher + 1) * Cipher

EncryptSlice(v, k) ==
  [i \in 1 .. Padded(SliceLength(v, k)) |-> [video |-> v, slice |-> k, at |-> i]]

Zero == [video |-> "none", slice |-> 0, at |-> 0]

\* The slices whose ciphertext under the key of v the bytes are.
Decrypts(bytes, v) ==
  {k \in 0 .. NumSlice(v) :
     k * SizeSlice <= size[v] /\ Len(bytes) = Padded(SliceLength(v, k))
       /\ bytes = EncryptSlice(v, k)}

(***************************************************************************)
(* Arithmetic of the server.                                               *)
(***************************************************************************)
ToInt(x) == ((x + Half) % (2 * Half)) - Half
Div(a, b) == IF a >= 0 THEN a \div b ELSE -((-a) \div b)

(***************************************************************************)
(* Upload.  readNextSlice(k) ends the upload or posts slice k.             *)
(***************************************************************************)
ReadNextSlice(v, k) ==
  IF k * SizeSlice > size[v] \/ k > NumSlice(v)
  THEN /\ posting' = [posting EXCEPT ![v] = "success"]
       /\ UNCHANGED current
  ELSE /\ posting' = [posting EXCEPT ![v] = "slice"]
       /\ current' = [current EXCEPT ![v] = k]

Choose(v) ==
  /\ posting[v] = "new"
  /\ \E n \in Sizes[v] : size' = [size EXCEPT ![v] = n]
  /\ posting' = [posting EXCEPT ![v] = "slice"]
  /\ UNCHANGED <<current, serverVars, tabVars, faults>>

\* Mutant: the average over all slices, the last one included.
NewRowAverage(v, bytes) ==
  [sizeFileEnc |-> IF NumSlice(v) > 1 THEN Div(ToInt(Len(bytes)), NumSlice(v))
                   ELSE ToInt(Len(bytes)),
   totalSlice |-> NumSlice(v)]

\* The database row the last slice creates.
NewRow(v, bytes) ==
  LET length == ToInt(Len(bytes))
      last == Len(EncryptSlice(v, current[v]))
      total == NumSlice(v)
  IN  [sizeFileEnc |-> IF total > 1 THEN Div(ToInt(length - last), total - 1) ELSE length,
       totalSlice |-> total]

Register(v, bytes) ==
  IF current[v] = NumSlice(v) - 1
  THEN row' = [row EXCEPT ![v] = {NewRow(v, bytes)}]
  ELSE UNCHANGED row

Store(v, bytes) ==
  /\ disk' = [disk EXCEPT ![v] = @ \o bytes]
  /\ Register(v, disk[v] \o bytes)

Abandon(v) ==
  /\ posting' = [posting EXCEPT ![v] = "failed"]
  /\ UNCHANGED <<size, current>>

\* The slice is stored and the page goes on with the next one.
Post(v) ==
  /\ posting[v] = "slice"
  /\ Store(v, EncryptSlice(v, current[v]))
  /\ ReadNextSlice(v, current[v] + 1)
  /\ UNCHANGED <<size, tabVars, faults>>

\* The write fails after none or half of the bytes.  The page is told, unless it was
\* the last slice: then the row is made all the same and counts as success.
PostTorn(v) ==
  /\ posting[v] = "slice"
  /\ Fault
  /\ \E n \in {0, Len(EncryptSlice(v, current[v])) \div 2} :
       Store(v, SubSeq(EncryptSlice(v, current[v]), 1, n))
  /\ IF current[v] = NumSlice(v) - 1
     THEN ReadNextSlice(v, current[v] + 1) /\ UNCHANGED size
     ELSE Abandon(v)
  /\ UNCHANGED tabVars

\* The request or its answer is lost.
PostLost(v) ==
  /\ posting[v] = "slice"
  /\ Fault
  /\ Abandon(v)
  /\ \/ UNCHANGED serverVars
     \/ Store(v, EncryptSlice(v, current[v]))
  /\ UNCHANGED tabVars

\* A video is deleted.
DeleteVideo(v) ==
  /\ row[v] # {}
  /\ row' = [row EXCEPT ![v] = {}]
  /\ disk' = [disk EXCEPT ![v] = <<>>]
  /\ UNCHANGED <<uploadVars, tabVars, faults>>

(***************************************************************************)
(* The storage cuts slice k out of the file of a video.  No answer if an   *)
(* array cannot have the length or the stream cannot skip so far back.     *)
(***************************************************************************)
Cut(v, r, k) ==
  LET fileSize == Len(disk[v])
      skip == ToInt(r.sizeFileEnc * k)
      length == ToInt(IF ToInt(r.sizeFileEnc * (k + 1)) > fileSize
                    THEN fileSize - ToInt(r.sizeFileEnc * k)
                    ELSE r.sizeFileEnc)
  IN  IF length < 0 \/ skip < 0 THEN {}
      ELSE {[i \in 1 .. length |->
               IF skip + i <= fileSize THEN disk[v][skip + i] ELSE Zero]}

(***************************************************************************)
(* Download.                                                               *)
(***************************************************************************)
Idle == [video |-> "none", slice |-> 0, total |-> 0, data |-> <<>>, file |-> <<>>]

Ready == {"idle", "saved", "failed"}

\* The user chooses a video of the list; the page gets the key of the user.
Click(t) ==
  /\ pc[t] \in Ready
  /\ clicks < MaxClicks /\ clicks' = clicks + 1
  /\ \E v \in {u \in Videos : row[u] # {}} :
       loc' = [loc EXCEPT ![t] = [Idle EXCEPT !.video = v]]
  /\ pc' = [pc EXCEPT ![t] = "request"]
  /\ disturbed' = disturbed \ {t}
  /\ UNCHANGED <<uploadVars, serverVars, temp, saved, faults>>

\* The page is unblocked, with an error; or it stays blocked, or is left for the
\* login page.
Fail(t, end) ==
  /\ pc' = [pc EXCEPT ![t] = end]
  /\ UNCHANGED <<loc, temp, saved, disturbed, clicks, uploadVars, serverVars>>

\* requestSlice, answered with a slice that can be decrypted.
Request(t) ==
  LET v == loc[t].video
  IN  /\ pc[t] = "request"
      /\ \E r \in row[v] : \E bytes \in Cut(v, r, loc[t].slice) :
           \E k \in Decrypts(bytes, v) :
             loc' = [loc EXCEPT ![t].data = Slice(v, k), ![t].total = r.totalSlice]
      /\ pc' = [pc EXCEPT ![t] = "write"]
      /\ UNCHANGED <<temp, saved, disturbed, clicks, uploadVars, serverVars, faults>>

\* Mutant: an error arrives as a success, and the exception of the first use of what
\* it should hold leaves the page blocked.
RequestFailsBlocked(t) ==
  LET v == loc[t].video
  IN  /\ pc[t] = "request"
      /\ \A r \in row[v] : \A bytes \in Cut(v, r, loc[t].slice) : Decrypts(bytes, v) = {}
      /\ Fail(t, "blocked")
      /\ UNCHANGED faults

\* The video is gone, the storage throws, or the slice cannot be decrypted.
RequestFails(t) ==
  LET v == loc[t].video
  IN  /\ pc[t] = "request"
      /\ \A r \in row[v] : \A bytes \in Cut(v, r, loc[t].slice) : Decrypts(bytes, v) = {}
      /\ Fail(t, "failed")
      /\ UNCHANGED faults

\* A request is lost or refused, or the key of the video is not recovered.  Without
\* a token executeService throws, and a token it cannot decrypt, or that allows
\* nothing, it drops: nobody unblocks the page.  With a status 401 the page is left.
RequestLost(t) ==
  /\ pc[t] = "request"
  /\ Fault
  /\ \E end \in {"failed", "blocked", "left"} : Fail(t, end)

\* After a write: the next slice, or the file goes to the user.
NextSlice(t, file) ==
  IF loc[t].slice + 1 < loc[t].total
  THEN /\ pc' = [pc EXCEPT ![t] = "request"]
       /\ loc' = [loc EXCEPT ![t].slice = @ + 1, ![t].file = file]
       /\ UNCHANGED saved
  ELSE /\ pc' = [pc EXCEPT ![t] = "saved"]
       /\ loc' = [loc EXCEPT ![t].file = file]
       /\ saved' = [saved EXCEPT ![t] = file]

\* FileUtilsGenericBrowser keeps the parts in the page.
Write(t) ==
  /\ pc[t] = "write" /\ t \notin Chrome
  /\ NextSlice(t, IF loc[t].slice = 0 THEN loc[t].data ELSE loc[t].file \o loc[t].data)
  /\ UNCHANGED <<temp, disturbed, clicks, uploadVars, serverVars, faults>>

\* FileUtilsChrome writes a file of that name in the temporary file system of
\* the site, which the first slice empties.
Sharing(t) ==
  {u \in Chrome \ {t} : pc[u] \in {"request", "write"}
                        /\ FileName[loc[u].video] = FileName[loc[t].video]}

Disturb(t) ==
  disturbed' = disturbed \cup Sharing(t) \cup (IF Sharing(t) = {} THEN {} ELSE {t})

\* Mutant: the first slice does not truncate the file.
WrittenChromeAppends(t, old) == old \o loc[t].data

WrittenChrome(t, old) == IF loc[t].slice = 0 THEN loc[t].data ELSE old \o loc[t].data

WriteChrome(t) ==
  LET name == FileName[loc[t].video]
      file == WrittenChrome(t, temp[name])
  IN  /\ pc[t] = "write" /\ t \in Chrome
      /\ temp' = [temp EXCEPT ![name] = file]
      /\ Disturb(t)
      /\ NextSlice(t, file)
      /\ UNCHANGED <<clicks, uploadVars, serverVars, faults>>

\* The file cannot be had, and errorHandler only writes to the log; or the writer
\* reports an error, perhaps after it has written.
WriteChromeFails(t) ==
  LET name == FileName[loc[t].video]
  IN  /\ pc[t] = "write" /\ t \in Chrome
      /\ Fault
      /\ \/ Fail(t, "blocked")
         \/ /\ pc' = [pc EXCEPT ![t] = "failed"]
            /\ \/ UNCHANGED temp
               \/ temp' = [temp EXCEPT ![name] = WrittenChrome(t, @)]
            /\ Disturb(t)
            /\ UNCHANGED <<loc, saved, clicks, uploadVars, serverVars>>

(***************************************************************************)
(* The specification.                                                      *)
(***************************************************************************)
Init ==
  /\ size = [v \in Videos |-> 0]
  /\ posting = [v \in Videos |-> "new"] /\ current = [v \in Videos |-> 0]
  /\ disk = [v \in Videos |-> <<>>] /\ row = [v \in Videos |-> {}]
  /\ pc = [t \in Tabs |-> "idle"] /\ loc = [t \in Tabs |-> Idle]
  /\ temp = [n \in Names |-> <<>>] /\ saved = [t \in Tabs |-> <<>>]
  /\ disturbed = {} /\ clicks = 0 /\ faults = 0

Upload(v) == Choose(v) \/ Post(v) \/ PostTorn(v) \/ PostLost(v)

Answer(t) == Request(t) \/ RequestFails(t) \/ RequestLost(t)
Keep(t) == Write(t) \/ WriteChrome(t) \/ WriteChromeFails(t)

Next ==
  \/ \E v \in Videos : Upload(v) \/ DeleteVideo(v)
  \/ \E t \in Tabs : Click(t) \/ Answer(t) \/ Keep(t)

Spec == Init /\ [][Next]_vars

\* A request is answered or fails, and the browser runs the callback of a write.
FairSpec == Spec /\ \A t \in Tabs : WF_vars(Answer(t) \/ Keep(t))

(***************************************************************************)
(* Properties.                                                             *)
(***************************************************************************)
\* What a download saves is the video, byte for byte: whatever failed, was
\* deleted or overflowed, it rather ends with an error.  In Chrome this is so
\* only if no other tab wrote the temporary file of that name meanwhile.
SavesTheVideo ==
  \A t \in Tabs :
    pc[t] = "saved" /\ t \notin disturbed => saved[t] = Content(loc[t].video)

\* The slices of v all begin and end within int: the last one is asked for as
\* sizeFileEnc * totalSlice, whatever its own length is.
WithinInt(v) == Padded(SizeSlice) * NumSlice(v) < Half

\* If nothing failed and the video was not deleted, only a video beyond the
\* range of int cannot be downloaded, also while its upload posts a slice more.
FailsForAReason ==
  \A t \in Tabs :
    pc[t] = "failed" /\ faults = 0 /\ row[loc[t].video] # {} =>
      ~WithinInt(loc[t].video)

\* A download ends and gives the page back, with the video or with an error, also
\* while its video is deleted, is still posted, has slices that are torn or lost or
\* beyond int, or other tabs write the same file: only a failure that hits the page
\* itself may leave it blocked, and one before this download does not.
DownloadsEnd ==
  \A t \in Tabs : \A n \in 0 .. MaxFaults :
    pc[t] \in {"request", "write"} /\ faults = n ~> pc[t] \in Ready \/ faults > n

=============================================================================
