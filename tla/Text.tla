-------------------------------- MODULE Text --------------------------------
(***************************************************************************)
(* The text conversions of the sinks: formatCData (log file), replace_all  *)
(* and sanitize_string (body of a STOMP frame), decode_hex_byte and        *)
(* parse_URL (configuration of the STOMP sink), each next to what a reader *)
(* of the result does with it.                                             *)
(*                                                                         *)
(* A text is a sequence of characters.  What is never taken apart, such as *)
(* "<![CDATA[" or "amp;", is one character; ends and separators that may   *)
(* arise from their parts ("]]>", "://", "%2F") are spelled out.           *)
(*                                                                         *)
(* The conversions keep no state.  So that they share a run with the line  *)
(* splitter, a behaviour either splits a text or converts one.             *)
(***************************************************************************)
EXTENDS LineSplitter

CONSTANTS MarkupTexts,  \* messages written to the log file
          BodyTexts,    \* messages written to a STOMP frame
          URLs          \* the parts of URLs; a part is a text or Absent

\* A message is a finite sequence of characters, whatever these are.
ASSUME TextAssumption == \A t \in MarkupTexts \cup BodyTexts : t \in Seq(ToSet(t))

VARIABLES converted, result

textVars == <<converted, result>>

\* std::string::substr and find; npos is the position after the end.
substr(t, pos, n) == SubSeq(t, pos, Min({pos + n - 1, Len(t)}))
npos(t) == Len(t) + 1
FindAny(t, pattern, pos) ==
    LET at == {i \in pos..Len(t) : substr(t, i, Len(pattern)) = pattern}
    IN  IF at = {} THEN npos(t) ELSE Min(at)
Rest(t, pos) == SubSeq(t, pos, Len(t))

-----------------------------------------------------------------------------
(***************************************************************************)
(* formatCData, and an XML reader of its result.                           *)
(***************************************************************************)
Open  == "<![CDATA["
Close == <<"]", "]", ">">>

\* Mutant: the search goes on behind the end mark, which is not split.
formatCDataWhole(t) ==
    LET from[pos \in 1..npos(t)] ==
            LET i == FindAny(t, Close, pos)
            IN  IF i = npos(t) THEN Rest(t, pos)
                ELSE SubSeq(t, pos, i + 2) \o Close \o <<Open>> \o from[i + 3]
    IN  <<Open>> \o from[1] \o Close

\* Every "]]>" of the message is divided between two sections.
formatCData(t) ==
    LET from[pos \in 1..npos(t)] ==
            LET i == FindAny(t, Close, pos)
            IN  IF i = npos(t) THEN Rest(t, pos)
                ELSE SubSeq(t, pos, i + 1) \o Close \o <<Open>> \o from[i + 2]
    IN  <<Open>> \o from[1] \o Close

\* The character data of a sequence of sections; "malformed" if it is none.
CData(x) ==
    LET from[pos \in 1..npos(x)] ==
            IF pos = npos(x) THEN <<>>
            ELSE LET end == FindAny(x, Close, pos + 1)
                 IN  IF x[pos] # Open \/ end = npos(x) THEN <<"malformed">>
                     ELSE SubSeq(x, pos + 1, end - 1) \o from[end + 3]
    IN  from[1]
-----------------------------------------------------------------------------
(***************************************************************************)
(* replace_all and sanitize_string.  The patterns are single characters.   *)
(* The map of replacements is ordered by the addresses of its keys, so any *)
(* order may happen.                                                       *)
(***************************************************************************)
replace_all(t, pattern, new) ==
    FlattenSeq([i \in DOMAIN t |-> IF t[i] = pattern THEN new ELSE <<t[i]>>])

Entities == [c \in {"<", ">", "'", "quote"} |->
                CASE c = "<" -> "lt;" [] c = ">" -> "gt;" [] c = "'" -> "apos;" [] OTHER -> "quot;"]
Orders == {o \in [1..4 -> DOMAIN Entities] : IsInjective(o)}

\* Mutant: "&" is replaced last, as a map that re-orders would have it.
sanitize_string_late(t, order) ==
    LET step(u, i) == replace_all(u, order[i], <<"&", Entities[order[i]]>>)
        all == step(step(step(step(t, 1), 2), 3), 4)
    IN  replace_all(replace_all(all, "&", <<"&", "amp;">>), "NUL", <<"\\", "0">>)

sanitize_string(t, order) ==
    LET amp == replace_all(t, "&", <<"&", "amp;">>)
        step(u, i) == replace_all(u, order[i], <<"&", Entities[order[i]]>>)
        all == step(step(step(step(amp, 1), 2), 3), 4)
    IN  replace_all(all, "NUL", <<"\\", "0">>)

\* What an XML reader makes of character data: an entity is "&" and its name.
CharData(x) ==
    LET char == [name \in {Entities[c] : c \in DOMAIN Entities} \cup {"amp;"} |->
            IF name = "amp;" THEN "&" ELSE CHOOSE c \in DOMAIN Entities : Entities[c] = name]
        from[pos \in 1..npos(x)] ==
            IF pos = npos(x) THEN <<>>
            ELSE IF x[pos] # "&" THEN <<x[pos]>> \o from[pos + 1]
            ELSE IF pos < Len(x) /\ x[pos + 1] \in DOMAIN char
                 THEN <<char[x[pos + 1]]>> \o from[pos + 2] ELSE <<"malformed">>
    IN  from[1]
-----------------------------------------------------------------------------
(***************************************************************************)
(* decode_hex_byte and parse_URL.                                          *)
(***************************************************************************)
Absent  == <<"absent">>     \* no such part in the URL
Invalid == <<"invalid">>    \* std::invalid_argument
Escape  == [c \in {"@", ":", "/", "%", "+", "a"} |->
               CASE c = "@" -> <<"4", "0">> [] c = ":" -> <<"3", "A">> [] c = "/" -> <<"2", "F">>
                 [] c = "%" -> <<"2", "5">> [] c = "+" -> <<"2", "B">> [] OTHER -> <<"6", "1">>]

HexDigits == {"0", "1", "2", "3", "4", "5", "6", "7", "8", "9",
              "a", "b", "c", "d", "e", "f", "A", "B", "C", "D", "E", "F"}

\* The character that two others stand for; no other two hexadecimal digits occur.
Unescape(code) ==
    LET of == {c \in DOMAIN Escape : Escape[c] = code}
    IN  IF of = {} THEN Invalid ELSE <<CHOOSE c \in of : TRUE>>

\* Mutant: the loop counter is moved by one character too few.
decode_hex_byte_short(t) ==
    LET from[pos \in 1..npos(t) + 2] ==
            IF pos >= npos(t) THEN <<>>
            ELSE IF t[pos] = "%" THEN Unescape(substr(t, pos + 1, 2)) \o from[pos + 2]
            ELSE <<IF t[pos] = "+" THEN " " ELSE t[pos]>> \o from[pos + 1]
    IN  from[1]

\* A result that contains Invalid stands for the exception.
decode_hex_byte(t) ==
    LET from[pos \in 1..npos(t) + 2] ==
            IF pos >= npos(t) THEN <<>>
            ELSE IF t[pos] = "%" THEN Unescape(substr(t, pos + 1, 2)) \o from[pos + 3]
            ELSE <<IF t[pos] = "+" THEN " " ELSE t[pos]>> \o from[pos + 1]
    IN  from[1]

Numerals == <<"0", "1", "2", "3", "4", "5", "6", "7", "8", "9">>
Digits == [c \in ToSet(Numerals) |-> (CHOOSE i \in 1..10 : Numerals[i] = c) - 1]

PortRange == 1..65535

\* atoi with the checks that follow it.
ValidPort(port) ==
    /\ Len(port) <= 5
    /\ \A i \in DOMAIN port : port[i] \in DOMAIN Digits
    /\ LET value[i \in 0..Len(port)] ==
               IF i = 0 THEN 0 ELSE 10 * value[i - 1] + Digits[port[i]]
       IN  value[Len(port)] \in PortRange

\* The defaults set before the call; parse_URL replaces the parts it finds.
Defaults == [protocol |-> <<"d">>, login |-> <<"d">>, password |-> <<"d">>,
             host |-> <<"d">>, port |-> <<"1">>, path |-> <<"d">>]

parse_URL(url) ==
    LET proto     == FindAny(url, <<":", "/", "/">>, 1)
        protoEnd  == IF proto = npos(url) THEN 1 ELSE proto + 3
        at        == FindAny(url, <<"@">>, protoEnd)
        hasLogin  == at # npos(url)
        loginEnd  == FindAny(url, <<":">>, protoEnd)
        hostStart == IF hasLogin THEN at + 1 ELSE protoEnd
        slash     == FindAny(url, <<"/">>, hostStart)
        colon     == FindAny(url, <<":">>, hostStart)
        hasPort   == colon < slash
        Between(from, to) == SubSeq(url, from, to - 1)
        parts ==
            [protocol |-> IF proto = npos(url) THEN Defaults.protocol ELSE Between(1, proto),
             login    |-> IF hasLogin THEN decode_hex_byte(Between(protoEnd, loginEnd)) ELSE Defaults.login,
             password |-> IF hasLogin THEN decode_hex_byte(Between(loginEnd + 1, at)) ELSE Defaults.password,
             host     |-> Between(hostStart, IF hasPort THEN colon ELSE slash),
             port     |-> IF hasPort THEN Between(colon + 1, slash) ELSE Defaults.port,
             path     |-> IF slash = npos(url) THEN Defaults.path
                          ELSE decode_hex_byte(Rest(url, slash + 1))]
    IN  IF \/ hasLogin /\ (loginEnd = protoEnd \/ loginEnd > at)
           \/ \E k \in {"login", "password", "path"} : Invalid[1] \in ToSet(parts[k])
           \/ hasPort /\ ~ValidPort(parts.port)
           \/ parts.host = <<>>
        THEN [k \in DOMAIN Defaults |-> Invalid]
        ELSE parts

\* What the code of a character is, if the reserved ones are encoded; "stray" is
\* a "%" that begins no escape sequence.
Code(c, reserved) ==
    IF c \in reserved THEN <<"%">> \o Escape[c]
    ELSE IF c = "stray" THEN <<"%">> ELSE IF c = " " THEN <<"+">> ELSE <<c>>

Encode(t, reserved) == FlattenSeq([i \in DOMAIN t |-> Code(t[i], reserved)])

\* What is encoded of a part besides what must be: nothing, "@", or all that may be.
Encodings == {{}, {"@"}, DOMAIN Escape}

\* A URL with the given parts.  "%", "+", "@" in login and password and ":" in
\* the login must be encoded; "@" and "/" in the path need not.
Compose(parts, extra) ==
    LET Part(before, t, after) == IF t = Absent THEN <<>> ELSE before \o t \o after
        Coded(t, reserved) == IF t = Absent THEN t ELSE Encode(t, reserved \cup {"%", "+"} \cup extra)
    IN  Part(<<>>, parts.protocol, <<":", "/", "/">>)
        \o Part(<<>>, Coded(parts.login, {":", "@"}), <<":">> \o Coded(parts.password, {"@"}) \o <<"@">>)
        \o parts.host \o Part(<<":">>, parts.port, <<>>) \o Part(<<"/">>, Coded(parts.path, {}), <<>>)

\* The parts of a URL are texts.  Those that the code takes as they are have
\* none of the characters that end them, and no stray "%" is followed by two
\* hexadecimal digits.
ASSUME UrlAssumption ==
    \A parts \in URLs :
        /\ DOMAIN parts = DOMAIN Defaults
        /\ \A k \in DOMAIN Defaults :
               /\ parts[k] \in Seq(ToSet(parts[k]))
               /\ parts[k] = Absent \/ ToSet(parts[k]) \cap {"absent", "invalid"} = {}
        /\ parts.host # Absent /\ ToSet(parts.host) \cap {":", "/", "@"} = {}
        /\ parts.password # Absent
        /\ ":" \notin ToSet(parts.protocol)
        /\ ToSet(parts.port) \cap {"/", "@"} = {}
        /\ \A k \in {"login", "password", "path"} : \A i \in 1..(Len(parts[k]) - 2) :
               parts[k][i] = "stray" => ~({parts[k][i + 1], parts[k][i + 2]} \subseteq HexDigits)
-----------------------------------------------------------------------------
\* One conversion, made before any text is split.
Fresh == converted.what = "none" /\ pc = "idle" /\ given = <<>>

Convert(what, text, outcome) ==
    /\ converted' = [what |-> what, text |-> text]
    /\ result' = outcome
    /\ UNCHANGED vars

WriteCData == Fresh /\ \E t \in MarkupTexts : Convert("file", t, formatCData(t))

WriteBody ==
    Fresh /\ \E t \in BodyTexts, o \in Orders : Convert("body", t, sanitize_string(t, o))

Configure ==
    Fresh /\ \E parts \in URLs, extra \in Encodings :
        Convert("url", <<parts, extra>>, parse_URL(Compose(parts, extra)))

TextInit == Init /\ converted = [what |-> "none"] /\ result = <<>>

TextNext ==
    \/ WriteCData \/ WriteBody \/ Configure
    \/ converted.what = "none" /\ Next /\ UNCHANGED textVars
    \/ converted.what # "none" /\ UNCHANGED <<vars, textVars>>

TextSpec == TextInit /\ [][TextNext]_<<vars, textVars>>
-----------------------------------------------------------------------------
\* A message with markup in it, also with parts of the end mark of a section,
\* is read back from the log file as it was written.
CDataReadsBack == converted.what = "file" => CData(result) = converted.text

\* A message is read back from the body of a frame as it was written, with
\* NUL, which would end the frame, made visible.
BodyReadsBack ==
    converted.what = "body" =>
        CharData(result) = replace_all(converted.text, "NUL", <<"\\", "0">>)

\* The number that some digits stand for, by the place of each.
Number(port) ==
    LET place(i) == IF i < Len(port) THEN Digits[port[Len(port) - i]] ELSE 0
    IN  place(0) + 10 * (place(1) + 10 * (place(2) + 10 * (place(3) + 10 * place(4))))

BadPort(port) ==
    \/ Len(port) > 5
    \/ \E i \in DOMAIN port : port[i] \notin DOMAIN Digits
    \/ Number(port) \notin PortRange

\* A bad port, an empty login, no host, or a bad escape sequence where one is decoded.
Refused(parts) ==
    \/ parts.port # Absent /\ BadPort(parts.port)
    \/ parts.login = <<>>
    \/ \E k \in {"login", "path"} : "stray" \in ToSet(parts[k])
    \/ parts.login # Absent /\ "stray" \in ToSet(parts.password)
    \/ parts.host = <<>>

\* What the parts should be read as: absent ones keep their defaults.
Meant(parts) ==
    [k \in DOMAIN Defaults |->
        IF Refused(parts) THEN Invalid
        ELSE IF parts[k] = Absent \/ (k = "password" /\ parts.login = Absent)
             THEN Defaults[k] ELSE parts[k]]

\* A URL without protocol has "://" somewhere; one without login has a bare "@"
\* in its path.
TakenForProtocol(parts, extra) ==
    LET url == Compose(parts, extra)
    IN  parts.protocol = Absent /\ FindAny(url, <<":", "/", "/">>, 1) # npos(url)
TakenForLogin(parts, extra) ==
    parts.login = Absent /\ "@" \in ToSet(parts.path) \ extra

\* A URL gives back the parts it was made of, whichever characters of them were
\* encoded, and parts that are absent keep their defaults; a URL with a bad
\* port, an empty login, no host or a bad escape sequence is refused.  It is so
\* only if "://" and "@" stand where a protocol and a login end: a URL without
\* login that has a bare "@" in its path is never read as it was meant, but
\* refused or given a login.
UrlReadsBack ==
    converted.what = "url" =>
        LET parts == converted.text[1]
            extra == converted.text[2]
        IN  ~TakenForProtocol(parts, extra) =>
                IF ~TakenForLogin(parts, extra) THEN result = Meant(parts)
                ELSE ~Refused(parts) => result # Meant(parts)
=============================================================================
