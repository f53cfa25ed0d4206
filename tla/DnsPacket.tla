------------------------------- MODULE DnsPacket -------------------------------
(***************************************************************************)
(* The mDNS packets of internal/discovery/mdns.go: a PTR query for the     *)
(* service, and a response of three records (PTR, SRV, TXT) whose TXT data *)
(* carries the member.  A packet is a sequence of bytes.                   *)
(*                                                                         *)
(* MaxLabel and MaxText stand for the 63 and 255 bytes that the code cuts  *)
(* labels and TXT strings to; with small values the cuts happen on short   *)
(* inputs.  Text is a sequence of bytes; a name a sequence of labels.      *)
(***************************************************************************)
EXTENDS Integers, SequencesExt

CONSTANTS MaxLabel, MaxText

ASSUME LimitsAssumption == MaxLabel \in 1..63 /\ MaxText \in 1..255

TypePTR == 12
TypeTXT == 16
TypeSRV == 33
ClassIN == 1
TTL     == 120
HeaderSize == 12

Cut(text, limit) == SubSeq(text, 1, IF Len(text) < limit THEN Len(text) ELSE limit)

appendUint16(value) == <<(value \div 256) % 256, value % 256>>

appendUint32(value) == appendUint16(value \div 65536) \o appendUint16(value % 65536)

Uint16(packet, offset) == 256 * packet[offset + 1] + packet[offset + 2]

\* id, flags and the four section counts
appendHeader(flags, questions, answers) ==
    appendUint16(0) \o appendUint16(flags) \o appendUint16(questions)
        \o appendUint16(answers) \o appendUint16(0) \o appendUint16(0)

\* Empty labels are skipped, long ones cut.
appendName(name) ==
    LET Label(l) == LET c == Cut(l, MaxLabel) IN <<Len(c)>> \o c
        labels == SelectSeq(name, LAMBDA l : l # <<>>)
    IN Append(FlattenSeq([i \in DOMAIN labels |-> Label(labels[i])]), 0)

appendResourceRecord(name, type, data) ==
    appendName(name) \o appendUint16(type) \o appendUint16(ClassIN)
        \o appendUint32(TTL) \o appendUint16(Len(data)) \o data

\* Mutant: the length byte is cut, the text is not.
encodeTXTUncut(records) ==
    LET kept == SelectSeq(records, LAMBDA r : r # <<>>)
    IN FlattenSeq([i \in DOMAIN kept |-> <<Len(Cut(kept[i], MaxText))>> \o kept[i]])

\* Empty strings are skipped, long ones cut.
encodeTXT(records) ==
    LET kept == SelectSeq(records, LAMBDA r : r # <<>>)
        Text(r) == LET c == Cut(r, MaxText) IN <<Len(c)>> \o c
    IN FlattenSeq([i \in DOMAIN kept |-> Text(kept[i])])

buildDNSQuery(service) ==
    appendHeader(0, 1, 0) \o appendName(service)
        \o appendUint16(TypePTR) \o appendUint16(ClassIN)

\* The SRV data are priority, weight, port and host name.
buildDNSResponse(service, instance, host, port, records) ==
    appendHeader(33792, 0, 3)
        \o appendResourceRecord(service, TypePTR, appendName(instance))
        \o appendResourceRecord(instance, TypeSRV,
             appendUint16(0) \o appendUint16(0) \o appendUint16(port) \o appendName(host))
        \o appendResourceRecord(instance, TypeTXT, encodeTXT(records))

-----------------------------------------------------------------------------
(* Offsets are the code's: the byte at offset o is packet[o + 1]. *)

Failed(s) == [s EXCEPT !.done = TRUE, !.ok = FALSE]

\* One turn of readName's loop on [offset, next, jumped, seen, labels], which
\* gives up after as many labels and pointers as the packet has bytes.
readNameTurn(packet, s) ==
    LET n == Len(packet)
        length == packet[s.offset + 1]
        t == [s EXCEPT !.seen = @ + 1]
    IN IF s.offset >= n \/ s.seen > n THEN Failed(s)
       ELSE IF length >= 192 THEN
              IF s.offset + 1 >= n THEN Failed(t)
              ELSE [t EXCEPT !.offset = Uint16(packet, s.offset) % 16384,
                             !.jumped = TRUE,
                             !.next = IF s.jumped THEN s.next ELSE s.offset + 2]
       ELSE IF length >= 64 THEN Failed(t)
       ELSE IF length = 0 THEN
              [t EXCEPT !.done = TRUE,
                        !.next = IF s.jumped THEN s.next ELSE s.offset + 1]
       ELSE IF s.offset + 1 + length > n THEN Failed(t)
       ELSE [t EXCEPT !.offset = s.offset + 1 + length,
                      !.labels = Append(@, SubSeq(packet, s.offset + 2, s.offset + 1 + length))]

RECURSIVE readNameFrom(_, _)
readNameFrom(packet, s) ==
    IF s.done \/ s.turns > Len(packet) + 2 THEN s
    ELSE readNameFrom(packet, [readNameTurn(packet, s) EXCEPT !.turns = @ + 1])

\* turns counts the turns to stop the evaluation of a loop that has no end.
readName(packet, offset) ==
    readNameFrom(packet, [offset |-> offset, next |-> offset, jumped |-> FALSE,
                          seen |-> 0, labels |-> <<>>, done |-> FALSE, ok |-> TRUE,
                          turns |-> 0])

\* The offset after the questions; 0 when they are cut short.
RECURSIVE skipQuestionsFrom(_, _, _)
skipQuestionsFrom(packet, offset, count) ==
    LET name == readName(packet, offset)
    IN IF count = 0 THEN offset
       ELSE IF ~name.ok \/ name.next + 4 > Len(packet) THEN 0
       ELSE skipQuestionsFrom(packet, name.next + 4, count - 1)

skipDNSQuestions(packet, count) == skipQuestionsFrom(packet, HeaderSize, count)

readDNSRecord(packet, offset) ==
    LET name == readName(packet, offset)
        next == name.next
        end  == next + 10 + Uint16(packet, next + 8)
    IN IF ~name.ok \/ next + 10 > Len(packet) THEN [ok |-> FALSE]
       ELSE IF end > Len(packet) THEN [ok |-> FALSE]
       ELSE [ok |-> TRUE, type |-> Uint16(packet, next),
             data |-> SubSeq(packet, next + 11, end), next |-> end]

\* Strings until the data end; a string that is cut short ends the list.
RECURSIVE decodeTXT(_)
decodeTXT(data) ==
    IF data = <<>> \/ 1 + data[1] > Len(data) THEN <<>>
    ELSE <<SubSeq(data, 2, 1 + data[1])>> \o decodeTXT(SubSeq(data, 2 + data[1], Len(data)))

\* The strings of every TXT record up to the first malformed record.
RECURSIVE collectTXTRecords(_, _, _)
collectTXTRecords(packet, offset, count) ==
    LET record == readDNSRecord(packet, offset)
    IN IF count = 0 \/ ~record.ok THEN <<>>
       ELSE (IF record.type = TypeTXT THEN <<decodeTXT(record.data)>> ELSE <<>>)
              \o collectTXTRecords(packet, record.next, count - 1)

parseTXTAnswers(packet) ==
    IF Len(packet) < HeaderSize THEN <<>>
    ELSE LET offset  == skipDNSQuestions(packet, Uint16(packet, 4))
             answers == Uint16(packet, 6) + Uint16(packet, 8) + Uint16(packet, 10)
         IN IF offset = 0 THEN <<>> ELSE collectTXTRecords(packet, offset, answers)

\* The first malformed question ends the search.
RECURSIVE asksFrom(_, _, _, _)
asksFrom(packet, offset, count, service) ==
    LET name == readName(packet, offset)
    IN /\ count > 0 /\ name.ok /\ name.next + 4 <= Len(packet)
       /\ \/ Uint16(packet, name.next) = TypePTR /\ name.labels = service
          \/ asksFrom(packet, name.next + 4, count - 1, service)

\* A response is no query.
packetAsksForService(packet, service) ==
    /\ Len(packet) >= HeaderSize
    /\ Uint16(packet, 2) < 32768
    /\ asksFrom(packet, HeaderSize, Uint16(packet, 4), service)
=============================================================================
