------------------------------ MODULE TagCodec ------------------------------
(***************************************************************************)
(* The text of tags (Tag.cpp) and how the reader takes it apart            *)
(* (TagSystem.cpp): the application of one end calls SendTag, the other    *)
(* end cuts the text into pieces behind every '!' and two characters,      *)
(* classifies each piece by its beginning, breaks it into command, message *)
(* and identity, and starts a thread for each tag that writes an           *)
(* acknowledgement back.                                                   *)
(*                                                                         *)
(* A text is a sequence of characters.  Both directions are whole streams  *)
(* here: that text arrives in portions is the subject of TagReceive.       *)
(***************************************************************************)
EXTENDS Integers, Sequences, SequencesExt

CONSTANTS
  Commands,  \* the command names the application uses
  Messages,  \* the messages it uses
  Sizes      \* the size of the queue of sent tags at each SendTag call

ASSUME TagCodecAssumption ==
  /\ Commands \subseteq Seq(STRING)
  /\ Messages \subseteq Seq(STRING)
  /\ Sizes \in Seq(Nat)

VARIABLES
  isMaster,   \* whether the writer is a master or the front end
  sent,       \* history: the tags written
  text,       \* tagMessage, what is not cut yet
  found,      \* history: what each piece was taken for
  answering,  \* the threads of TCPSendAck that have not written yet
  acks,       \* the acknowledgements written back and not read yet
  confirmed,  \* history: the identities the writer has read in them
  alive       \* FALSE once the process of the reader has terminated

codecVars == <<isMaster, sent, text, found, answering, acks, confirmed, alive>>

(* std::string::find, with 0 for npos. *)
Find(c, s) == SelectInSeq(s, LAMBDA x : x = c)

Digits == <<"0", "1", "2", "3", "4", "5", "6", "7", "8", "9">>

(* std::stoi of two characters: it stops at the second if it is no digit,    *)
(* and throws at the first.                                                  *)
Throws(s) == ~Contains(Digits, s[1])
StoI(s) ==
  LET tens == Find(s[1], Digits) - 1
  IN  IF Contains(Digits, s[2]) THEN 10 * tens + Find(s[2], Digits) - 1 ELSE tens

(* Mutant of AckDigits: no zero is put in front of a single digit. *)
AckDigitsBare(n) ==
  IF n < 10 THEN <<Digits[n + 1]>> ELSE <<Digits[(n \div 10) + 1], Digits[(n % 10) + 1]>>

(* Tag::SetAckID: two digits, and the number they stand for. *)
AckDigits(n) == <<Digits[(n \div 10) + 1], Digits[(n % 10) + 1]>>
SetAckID(n) == n % 100

(* The delimiter a tag is made with. *)
MessageDelimiter == IF isMaster THEN ";" ELSE ":"

(* Tag::ToString. *)
TagString(t) ==
  t.command \o <<MessageDelimiter>> \o t.message \o <<"!">> \o AckDigits(t.id)

(* Mutant of Delimiter: the delimiter of the masters is looked for first. *)
DelimiterMasterFirst(s) == IF Contains(s, ";") THEN ";" ELSE ":"

(* Tag::BreakTagString: a ':' anywhere in the string is the delimiter, and   *)
(* only a string without one is broken at its first ';'.                     *)
Delimiter(s) == IF Contains(s, ":") THEN ":" ELSE ";"

BreakTagString(s) ==
  LET at == Find(Delimiter(s), s)
      bang == Find("!", s)
  IN  [command |-> IF at = 0 THEN s ELSE SubSeq(s, 1, at - 1),
       message |-> SubSeq(s, at + 1, IF bang > at THEN bang - 1 ELSE Len(s)),
       id |-> StoI(SubSeq(s, bang + 1, bang + 2))]

(* Tag::AcknowledgeString, with the delimiter the tag itself does not use    *)
(* and the digits of the identity as they came.                              *)
AcknowledgeString(s) ==
  <<"A", "K", IF Delimiter(s) = ":" THEN ";" ELSE ":", "!">>
    \o SubSeq(s, Find("!", s) + 1, Find("!", s) + 2)

(* ClassifyAndGetTag: an acknowledgement is what begins with AK, and a tag   *)
(* with the command of an empty Tag is not collected.                        *)
IsAck(s) == IsPrefix(<<"A", "K">>, s)
KindOf(s) ==
  IF IsAck(s) THEN "ack"
  ELSE IF BreakTagString(s).command = <<"X", "X">> THEN "XX" ELSE "tag"

-----------------------------------------------------------------------------
CodecInit ==
  /\ isMaster \in BOOLEAN
  /\ sent = <<>>
  /\ text = <<>>
  /\ found = <<>>
  /\ answering = {}
  /\ acks = <<>>
  /\ confirmed = <<>>
  /\ alive = TRUE

(* SendTag. *)
SendTag(command, message) ==
  /\ Len(sent) < Len(Sizes)
  /\ LET t == [command |-> command, message |-> message,
               id |-> SetAckID(Sizes[Len(sent) + 1])]
     IN  /\ sent' = Append(sent, t)
         /\ text' = text \o TagString(t)
  /\ UNCHANGED <<isMaster, found, answering, acks, confirmed, alive>>

(* The first piece of the text, if it is complete. *)
PieceEnd == Find("!", text) + 2
HasPiece == Contains(text, "!") /\ PieceEnd <= Len(text)
FirstPiece == SubSeq(text, 1, PieceEnd)

(* ParseFirstTag and ClassifyAndGetTag: a thread of TCPSendAck is started    *)
(* with a copy of the tag.  An identity that does not begin with a digit     *)
(* throws, in the receiver thread or in that of CheckAcknowledgement, and    *)
(* nothing catches it.                                                       *)
ParseFirstTag ==
  /\ alive
  /\ HasPiece
  /\ text' = SubSeq(text, PieceEnd + 1, Len(text))
  /\ IF Throws(SubSeq(FirstPiece, PieceEnd - 1, PieceEnd))
     THEN /\ alive' = FALSE
          /\ UNCHANGED <<found, answering>>
     ELSE /\ found' = Append(found, [kind |-> KindOf(FirstPiece), tag |-> BreakTagString(FirstPiece)])
          /\ answering' =
               IF IsAck(FirstPiece) THEN answering
               ELSE answering \cup {[of |-> Len(found) + 1, text |-> AcknowledgeString(FirstPiece)]}
          /\ UNCHANGED alive
  /\ UNCHANGED <<isMaster, sent, acks, confirmed>>

(* TCPSendAck, by whichever of the threads gets to it.                       *)
TCPSendAck ==
  /\ alive
  /\ \E a \in answering :
       /\ acks' = Append(acks, a.text)
       /\ answering' = answering \ {a}
  /\ UNCHANGED <<isMaster, sent, text, found, confirmed, alive>>

(* The writer reads an acknowledgement: CheckAcknowledgement takes the       *)
(* identity out of it.  What it finds with that is the subject of SentTags.  *)
ReadAck ==
  /\ acks # <<>>
  /\ IsAck(Head(acks))
  /\ confirmed' = Append(confirmed, BreakTagString(Head(acks)).id)
  /\ acks' = Tail(acks)
  /\ UNCHANGED <<isMaster, sent, text, found, answering, alive>>

CodecNext ==
  \/ \E c \in Commands, m \in Messages : SendTag(c, m)
  \/ ParseFirstTag
  \/ TCPSendAck
  \/ ReadAck

CodecSpec == CodecInit /\ [][CodecNext]_codecVars

-----------------------------------------------------------------------------
(* What an application must keep to for a tag to come through: no '!', no    *)
(* delimiter in the command, in a tag of a master no ':' at all, and not a   *)
(* command the protocol uses itself.                                         *)
HasBang(t) == Contains(t.command, "!") \/ Contains(t.message, "!")
Plain(t) ==
  /\ ~HasBang(t)
  /\ ~Contains(t.command, ":")
  /\ isMaster => ~Contains(t.command, ";") /\ ~Contains(t.message, ":")
  /\ ~IsAck(t.command)
  /\ t.command # <<"X", "X">>

Framed == \A i \in 1 .. Len(sent) : ~HasBang(sent[i])
Survived(i) == i <= Len(found) /\ found[i] = [kind |-> "tag", tag |-> sent[i]]

(* A tag is delivered as it was sent if its text is plain, and only then: a  *)
(* '!', a ':' in the message of a master, a delimiter in a command, AK and   *)
(* XX each change or lose it.  As long as there is no '!' that is so for     *)
(* every tag whatever its neighbours hold, and the reader cuts one piece for *)
(* each tag and never terminates.                                            *)
SurvivesIffPlain ==
  ~(alive /\ HasPiece) =>
    /\ Len(sent) = 1 =>
         ((Survived(1) /\ Len(found) = 1 /\ text = <<>>) <=> Plain(sent[1]))
    /\ Framed =>
         /\ alive /\ text = <<>> /\ Len(found) = Len(sent)
         /\ \A i \in 1 .. Len(sent) : Survived(i) <=> Plain(sent[i])

(* The places of the tags that get an acknowledgement. *)
Answered == {i \in DOMAIN sent : ~IsAck(sent[i].command)}

(* Acknowledgements come home: without a '!' in a field, what the writer     *)
(* reads are the identities of the tags it wrote, each once, whatever became *)
(* of the fields and in whatever order the threads write; only a command     *)
(* that begins with AK gets none.  It is taken for an acknowledgement of the *)
(* tag that has its identity at the reader's end.                            *)
AcksComeHome ==
  Framed /\ text = <<>> /\ answering = {} /\ acks = <<>> =>
    \E place \in [DOMAIN confirmed -> Answered] :
      /\ \A i \in Answered : \E j \in DOMAIN confirmed : place[j] = i
      /\ \A i, j \in DOMAIN confirmed : i # j => place[i] # place[j]
      /\ \A j \in DOMAIN confirmed : confirmed[j] = sent[place[j]].id
=============================================================================
