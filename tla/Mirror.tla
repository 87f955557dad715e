-------------------------------- MODULE Mirror --------------------------------
(***************************************************************************)
(* What the server promises of the text of a document the client edits,    *)
(* without positions, encodings, files or a configuration: the client      *)
(* tells its texts one after the other, and a copy that is the text last   *)
(* followed becomes the next one when that is followed.  Module TextSync   *)
(* implements it.                                                          *)
(***************************************************************************)
EXTENDS Sequences, Integers

CONSTANTS
    MirrorText,     \* the texts of a document
    NoCopy          \* in place of a copy: there is none

VARIABLES
    ahead,          \* what the client told and the server did not yet follow
    followed,       \* the text last followed
    copy            \* the text the server has

mirrorVars == <<ahead, followed, copy>>

Told == [opens : BOOLEAN, text : MirrorText]

MirrorInit == ahead = <<>> /\ followed = NoCopy /\ copy \in MirrorText \cup {NoCopy}

Tell ==
    /\ Len(ahead') = Len(ahead) + 1
    /\ SubSeq(ahead', 1, Len(ahead)) = ahead /\ ahead'[Len(ahead')] \in Told
    /\ UNCHANGED <<followed, copy>>

\* An edit is made on the text it is an edit of.  A document that is opened
\* gives its text to a server that has none; one that has a text may keep it.
Follow ==
    /\ ahead # <<>>
    /\ LET told == Head(ahead)
       IN  /\ followed' = told.text
           /\ IF told.opens
              THEN copy' = told.text \/ (copy # NoCopy /\ copy' = copy)
              ELSE copy = followed => copy' = told.text
    /\ copy' \in MirrorText \cup {NoCopy}
    /\ ahead' = Tail(ahead)

\* The file of the document is read again, for reasons of its own.
Interfere ==
    /\ copy' \in MirrorText \cup {NoCopy}
    /\ UNCHANGED <<ahead, followed>>

MirrorNext == Tell \/ Follow \/ Interfere
MirrorSpec == MirrorInit /\ [][MirrorNext]_mirrorVars
=============================================================================
