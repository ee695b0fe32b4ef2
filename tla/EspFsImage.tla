----------------------------- MODULE EspFsImage -----------------------------
(***************************************************************************)
(* The image of the web pages: how mkespfsimage writes one file after the  *)
(* other (handleFile, finishArchive), and how the board finds a file in it *)
(* by its name (espFsOpen).  Of a name only the length matters, and        *)
(* whether two are equal; of a file the number of bytes that are stored    *)
(* (HeatshrinkEncoder).                                                    *)
(***************************************************************************)
EXTENDS SequencesExt, FiniteSetsExt, Integers

CONSTANTS Names,       \* names, each with its length: [text, len]
          Sizes,       \* sizes of stored files; an empty file is left out (mmap)
          MaxFiles     \* bound: files in an image

VARIABLES headers,     \* position -> header
          end,         \* where the image ends
          content,     \* history: name -> where its bytes were written
          wanted,      \* the name that espFsOpen looks for
          p,           \* where it is
          opened       \* what it gave: a position of content, or why not

vars == <<headers, end, content, wanted, p, opened>>

HeaderSize == 16
NoName == [text |-> "", len |-> 0]
Pending == -1
EndOfImage == -2
Broken == -3

TypeOK ==
    /\ DOMAIN content \subseteq Names /\ Range(content) \subseteq Nat
    /\ \A at \in DOMAIN headers :
          headers[at] \in [last : BOOLEAN, name : Names \union {NoName}, nameLen : Nat, size : Nat]
    /\ end \in Nat /\ p \in Nat
    /\ wanted \in Names \union {NoName}
    /\ opened \in Nat \union {Pending, EndOfImage, Broken}

Init ==
    /\ headers = <<>>
    /\ end = 0
    /\ content = <<>>
    /\ wanted = NoName
    /\ p = 0
    /\ opened = Pending

\* The next position of a word.
Aligned(n) == ((n + 3) \div 4) * 4

\* nameLen of handleFile
NameLen(name) == Aligned(name.len + 1)

Packed == \E at \in DOMAIN headers : headers[at].last

\* f with a value at a place of its own.
With(f, at, v) == [x \in DOMAIN f \union {at} |-> IF x = at THEN v ELSE f[x]]

\* handleFile: header, name, content and the bytes up to the next word.
HandleFile(name, size) ==
    /\ ~Packed /\ name \notin DOMAIN content /\ Cardinality(DOMAIN content) < MaxFiles
    /\ LET at == end + HeaderSize + NameLen(name) IN
       /\ content' = With(content, name, at)
       /\ end' = at + Aligned(size)
    /\ headers' = With(headers, end, [last |-> FALSE, name |-> name, nameLen |-> NameLen(name),
                                      size |-> size])
    /\ UNCHANGED <<wanted, p, opened>>

\* finishArchive
FinishArchive ==
    /\ ~Packed
    /\ headers' = With(headers, end, [last |-> TRUE, name |-> NoName, nameLen |-> 0, size |-> 0])
    /\ end' = end + HeaderSize
    /\ UNCHANGED <<content, wanted, p, opened>>

\* A request for a file.
Open(name) ==
    /\ Packed /\ wanted = NoName
    /\ wanted' = name
    /\ UNCHANGED <<headers, end, content, p, opened>>

\* A faulty step over a file that does not go to the next word.
Skipped_Unaligned(h) == p + HeaderSize + h.nameLen + h.size

\* Over name and content to the next header.
Skipped(h) == Aligned(p + HeaderSize + h.nameLen + h.size)

\* A turn of the loop of espFsOpen.
Look ==
    /\ wanted # NoName /\ opened = Pending
    /\ IF p \notin DOMAIN headers
       THEN opened' = Broken /\ UNCHANGED p
       ELSE LET h == headers[p] IN
            IF h.last THEN opened' = EndOfImage /\ UNCHANGED p
            ELSE IF h.name = wanted
            THEN opened' = p + HeaderSize + h.nameLen /\ UNCHANGED p
            ELSE p' = Skipped(h) /\ UNCHANGED opened
    /\ UNCHANGED <<headers, end, content, wanted>>

Next ==
    \/ \E name \in Names, size \in Sizes : HandleFile(name, size)
    \/ FinishArchive
    \/ \E name \in Names : Open(name)
    \/ Look

Spec == Init /\ [][Next]_vars /\ WF_vars(Look)
-----------------------------------------------------------------------------
\* Every file that was packed is found, at its own content, whatever the
\* lengths of the names and files before it; a name that was not packed is not
\* found, and no image looks broken.
FilesFound ==
    /\ opened # Broken
    /\ opened # Pending =>
          opened = IF wanted \in DOMAIN content THEN content[wanted] ELSE EndOfImage
=============================================================================
