------------------------------ MODULE QQMedia ------------------------------
(***************************************************************************)
(* The files of bub-qq: attachments that the prompt, qq.view_image and     *)
(* qq.fetch_attachment download into inbox/ (inbound/persist.py,           *)
(* inbound/images.py, tools.py), and files that qq.send uploads part by    *)
(* part (outbound/media.py, outbound/upload.py).                           *)
(*                                                                         *)
(* A file is what its name leads to; who has opened it goes on with what   *)
(* he opened, whatever becomes of the name.  Every step is what a          *)
(* coroutine runs between two awaits.                                      *)
(***************************************************************************)
EXTENDS BoundedDict

CONSTANTS
  Messages,   \* with one attachment each
  Chats,
  FileName(_),\* inbox_dir and safe_filename: the name a message's attachment is kept under
  Calls,      \* numbers, in the order in which they begin
  Size,       \* of an attachment, in blocks
  Blocks,     \* the parts a platform may ask for: sequences of sizes that cover the file
  StateSize,
  MaxCrashes

VARIABLES
  record,   \* attachments_by_message_id: the chat of a message
  call,     \* of a call: [kind, of, chat]
  at, pos,  \* where it stands, and what it has written or sent
  open,     \* of a call: the file it writes
  data,     \* of a file: its blocks, <<message, place>> (<<0, 0>>: a hole)
  part, dest, \* of a name: the file under it, with and without ".part" (0: none)
  got,      \* of a call: the blocks it has read
  uploaded, \* platform: the blocks it holds for a call
  parts,    \* what upload_prepare asked for
  chatOf,   \* history: the chat a message came in
  shared,   \* history: names that two downloads wrote to at a time
  crashes

\* Where the parts of a file begin, and the last of them ends.
Offsets(p) ==
  LET sum[n \in 0 .. Len(p)] == IF n = 0 THEN 0 ELSE sum[n - 1] + p[n]
  IN sum

QQMediaConstants ==
  /\ "none" \notin Chats /\ 0 \notin Calls /\ Size \in Nat \ {0}
  /\ \A p \in Blocks :
       /\ \A k \in 1 .. Len(p) : p[k] \in Nat
       /\ Len(p) \in Nat /\ Offsets(p)[Len(p)] >= Size

files == <<data, part, dest>>
calls == <<call, at, pos, open, got>>
upload == <<uploaded, parts>>
history == <<chatOf, shared, crashes>>
vars == <<record, calls, files, upload, history>>

Names == {FileName(m) : m \in Messages}
NoCall == [kind |-> "none", of |-> 0, chat |-> "none"]
Empty == [b \in 1 .. Size |-> <<0, 0>>]

Init ==
  /\ record = EmptyDict /\ chatOf = [m \in Messages |-> "none"]
  /\ call = [c \in Calls |-> NoCall] /\ at = [c \in Calls |-> "idle"]
  /\ pos = [c \in Calls |-> 0] /\ open = [c \in Calls |-> 0]
  /\ got = [c \in Calls |-> <<>>] /\ data = [c \in Calls |-> Empty]
  /\ part = [n \in Names |-> 0] /\ dest = [n \in Names |-> 0]
  /\ uploaded = [c \in Calls |-> <<>>] /\ parts = [c \in Calls |-> <<>>]
  /\ shared = {} /\ crashes = 0

\* remember_session, of a message with an attachment.
Arrives(m, s) ==
  /\ chatOf[m] = "none" /\ chatOf' = [chatOf EXCEPT ![m] = s]
  /\ record' = Put(record, m, s, StateSize)
  /\ UNCHANGED <<calls, files, upload, shared, crashes>>

Name(c) == FileName(call[c].of)
Goes(c, where) == at' = [at EXCEPT ![c] = where]
Ends(c) == Goes(c, "over")

\* mutant: an attachment of any chat will do.
AnyAttachment(m, s) == Has(record, m)

\* _chat_attachment: an attachment of a message of this chat that is still known.
ChatAttachment(m, s) == Get(record, m, "none") = s

\* fetch_image for the prompt, which needs no look-up; qq_view_image; qq_fetch_attachment.
\* What was downloaded before is not downloaded again.
Begins(c, kind, m, s) ==
  /\ at[c] = "idle" /\ chatOf[m] # "none"
  /\ \/ kind = "prompt" /\ s = chatOf[m]
     \/ kind \in {"view", "fetch"} /\ ChatAttachment(m, s)
  /\ call' = [call EXCEPT ![c] = [kind |-> kind, of |-> m, chat |-> s]]
  /\ Goes(c, IF dest[FileName(m)] = 0 THEN "get" ELSE "read")
  /\ UNCHANGED <<record, pos, open, got, files, upload, history>>

-----------------------------------------------------------------------------
(* download_to_path *)

\* mutant: the download is written where it is to be read.
InPlace(c) ==
  /\ data' = [data EXCEPT ![c] = Empty] /\ open' = [open EXCEPT ![c] = c]
  /\ dest' = [dest EXCEPT ![Name(c)] = c] /\ UNCHANGED part

\* tmp.open("wb"): the file under the name, cut to nothing, or a new one.
OpensPart(c) ==
  LET f == IF part[Name(c)] = 0 THEN c ELSE part[Name(c)] IN
  /\ data' = [data EXCEPT ![f] = Empty] /\ open' = [open EXCEPT ![c] = f]
  /\ part' = [part EXCEPT ![Name(c)] = f] /\ UNCHANGED dest

\* download_to_path: a URL, or a redirect, that the guard refuses ends here, and so does
\* an answer that is no success.
Gets(c) ==
  /\ at[c] = "get"
  /\ \/ Ends(c) /\ UNCHANGED <<open, files, shared>>
     \/ /\ Goes(c, "write") /\ OpensPart(c)
        /\ shared' = shared \cup
             {n \in {Name(c)} : \E d \in Calls : at[d] = "write" /\ Name(d) = n}
  /\ UNCHANGED <<record, call, pos, got, upload, chatOf, crashes>>

\* _write_body: a block more.
Writes(c) ==
  /\ at[c] = "write" /\ pos[c] < Size
  /\ pos' = [pos EXCEPT ![c] = @ + 1]
  /\ data' = [data EXCEPT ![open[c]][pos'[c]] = <<call[c].of, pos'[c]>>]
  /\ UNCHANGED <<record, call, at, open, got, part, dest, upload, history>>

\* A lost connection, a timeout, too many bytes or a cancellation: the part is unlinked.
BreaksOff(c) ==
  /\ at[c] = "write" /\ Ends(c)
  /\ part' = [part EXCEPT ![Name(c)] = 0]
  /\ UNCHANGED <<record, call, pos, open, got, data, dest, upload, history>>

\* tmp.replace(dest): whatever is under the part's name now, if anything.
Replaces(c) ==
  /\ at[c] = "write" /\ pos[c] = Size
  /\ IF part[Name(c)] = 0
     THEN Ends(c) /\ UNCHANGED <<dest, part>>
     ELSE /\ Goes(c, "read")
          /\ dest' = [dest EXCEPT ![Name(c)] = part[Name(c)]]
          /\ part' = [part EXCEPT ![Name(c)] = 0]
  /\ UNCHANGED <<record, call, pos, open, got, data, upload, history>>

\* load_image reads the file; of one that was fetched, fs.read does.
Reads(c) ==
  /\ at[c] = "read" /\ dest[Name(c)] # 0
  /\ got' = [got EXCEPT ![c] = data[dest[Name(c)]]]
  /\ Ends(c)
  /\ UNCHANGED <<record, call, pos, open, files, upload, history>>

-----------------------------------------------------------------------------
(* qq.send of a media_path *)

\* resolve_media_path: a file of inbox/ that is there; upload_local_file reads it whole.
Sends(c, m, s) ==
  /\ at[c] = "idle" /\ chatOf[m] # "none" /\ dest[FileName(m)] # 0
  /\ call' = [call EXCEPT ![c] = [kind |-> "send", of |-> m, chat |-> s]]
  /\ got' = [got EXCEPT ![c] = data[dest[FileName(m)]]]
  /\ Goes(c, "prepare")
  /\ UNCHANGED <<record, pos, open, files, upload, history>>

\* post_*_upload_prepare fails, or answers with the parts it wants.
Prepares(c) ==
  /\ at[c] = "prepare"
  /\ \/ Ends(c) /\ UNCHANGED parts
     \/ \E p \in Blocks : parts' = [parts EXCEPT ![c] = p] /\ Goes(c, "put")
  /\ UNCHANGED <<record, call, pos, open, got, files, uploaded, history>>

Least(a, b) == IF a < b THEN a ELSE b

\* mutant: every part begins where the file does.
ChunkAtStart(c, k) == SubSeq(got[c], 1, parts[c][k])

\* data[offset : offset + block_size], of part k: what goes on from the chunks before it.
Chunk(c, k) ==
  LET offset == Len(uploaded[c])
  IN SubSeq(got[c], offset + 1, Least(offset + parts[c][k], Len(got[c])))

\* put_url and post_*_upload_part_finish: one part after the other.
PutsPart(c) ==
  /\ at[c] = "put" /\ pos[c] < Len(parts[c])
  /\ \/ Ends(c) /\ UNCHANGED <<pos, uploaded>>
     \/ /\ pos' = [pos EXCEPT ![c] = @ + 1]
        /\ uploaded' = [uploaded EXCEPT ![c] = @ \o Chunk(c, pos'[c])]
        /\ UNCHANGED at
  /\ UNCHANGED <<record, call, open, got, files, parts, history>>

\* post_*_file merges them, and post_*_media_message sends what it answers.
Merges(c) ==
  /\ at[c] = "put" /\ pos[c] = Len(parts[c])
  /\ at' \in {[at EXCEPT ![c] = r] : r \in {"over", "sent"}}
  /\ UNCHANGED <<record, call, pos, open, got, files, upload, history>>

-----------------------------------------------------------------------------
\* The process ends; files stay as they are.
Crashes ==
  /\ crashes < MaxCrashes /\ crashes' = crashes + 1
  /\ record' = EmptyDict
  /\ at' = [c \in Calls |-> IF at[c] \in {"idle", "sent"} THEN at[c] ELSE "over"]
  /\ UNCHANGED <<call, pos, open, got, files, upload, chatOf, shared>>

Next ==
  \/ \E m \in Messages, s \in Chats : Arrives(m, s)
  \/ \E c \in Calls :
       \/ \E m \in Messages, s \in Chats :
            Sends(c, m, s) \/ \E kind \in {"prompt", "view", "fetch"} : Begins(c, kind, m, s)
       \/ Gets(c) \/ Writes(c) \/ BreaksOff(c) \/ Replaces(c) \/ Reads(c)
       \/ Prepares(c) \/ PutsPart(c) \/ Merges(c)
  \/ Crashes

Spec == Init /\ [][Next]_vars

-----------------------------------------------------------------------------
(* Properties *)

Whole(m) == [b \in 1 .. Size |-> <<m, b>>]

\* What the model sees and the chat is sent is an attachment that is kept under the name of
\* the one it asked for, whole, and of its own chat, unless two downloads wrote to that name
\* at a time; and a part is left only by a crash: load_image, _write_body,
\* upload_local_file.
FilesAreWhole ==
  /\ \A c \in Calls :
       got[c] # <<>> /\ Name(c) \notin shared =>
         /\ \E m \in Messages : FileName(m) = Name(c) /\ got[c] = Whole(m)
         /\ call[c].kind # "send" => chatOf[call[c].of] = call[c].chat
         /\ at[c] = "sent" => uploaded[c] = got[c]
  /\ crashes = 0 =>
       \A n \in Names : part[n] # 0 => \E c \in Calls : at[c] = "write" /\ Name(c) = n
=============================================================================
