--------------------------- MODULE CommandParser ---------------------------
(***************************************************************************)
(* The prompt of client/client.c and client/localclient.c: lines are read  *)
(* into a buffer, parse_command splits them, command_to_datagram           *)
(* (client/libclient.c) makes a datagram of them or refuses.               *)
(*                                                                         *)
(* Lines are sequences of characters.  The words the program knows are one *)
(* character long here ("ping" is "p"), so that the offset 5 of ping, one  *)
(* more than the length of its name, is 2; "d" stands for a date and time  *)
(* that strptime accepts.  A read returns one line, as a terminal does.    *)
(* Where datagrams go after this is in the modules of the transports.      *)
(***************************************************************************)
EXTENDS Integers, Sequences, SequencesExt, FiniteSetsExt

CONSTANTS
    Lines,            \* what may be typed, without the newline
    Size,             \* of the buffer (DATAGRAM_MAXSIZE)
    MAX_ARGS,         \* arguments that argv has room for
    CMD_BUFFER_SIZE,  \* characters that an argument has room for
    CMD_ROOM          \* characters from dg_cmd to the end of a DB_DATAGRAM

ASSUME ParserAssumption ==
    /\ {MAX_ARGS, CMD_BUFFER_SIZE, CMD_ROOM} \subseteq Nat \ {0}
    /\ \A l \in Lines : Len(l) < Size

VARIABLES
    build,     \* which of the two programs this is
    phase,     \* "prompt", "typed" (a line is in the buffer), or "ended"
    buffer,    \* the buffer of main
    typed,     \* history: the line typed last
    isAdmin,   \* is_admin
    delay,     \* delay of the local client
    sent,      \* the datagram the last line was made into
    spoiled,   \* something was written past the end of a block of the heap
    why,       \* why the process ended
    longest,   \* history: the length of the longest line typed so far
    risky      \* history: a line was typed that the heap has no room for

vars == <<build, phase, buffer, typed, isAdmin, delay, sent, spoiled, why, longest, risky>>

-----------------------------------------------------------------------------
Blank == " "
Quote == "\""
NUL == "nul"
Digit == [d \in {"1", "2"} |-> IF d = "1" THEN 1 ELSE 2]

None == [op |-> "none", a |-> 0, b |-> 0, text |-> <<>>]
Datagram(op, a, b, text) == [op |-> op, a |-> a, b |-> b, text |-> text]

\* The string that starts at position i of b.
EndOf(b, i) == Min({j \in i..Size : b[j] = NUL})
String(b, i) == SubSeq(b, i, EndOf(b, i) - 1)

\* atoi: the digits a word begins with.
atoi(w) ==
    LET n == Max({m \in 0..Len(w) : \A i \in 1..m : w[i] \in DOMAIN Digit})
    IN  FoldLeft(LAMBDA v, d : 10 * v + Digit[d], 0, SubSeq(w, 1, n))

-----------------------------------------------------------------------------
(* parse_command.                                                          *)

\* Mutant: only one blank is skipped.
SkipOne(b, i) == IF b[i] = Blank THEN i + 1 ELSE i

\* LEFT_STRIP
LEFT_STRIP(b, i) == Min({j \in i..Size : b[j] # Blank})

\* Where the argument that starts at i ends, quoted or not.
EndOfArgument(b, i, comillas) ==
    Min({j \in i..Size : b[j] \in {NUL, IF comillas THEN Quote ELSE Blank}})

Unclosed == "unclosed"

\* The arguments from position i on, which is not a blank; Unclosed comes last
\* if a quote is not closed.
Arguments(b) ==
    LET from[i \in 1..Size] ==
          IF b[i] = NUL THEN <<>>
          ELSE LET comillas == b[i] = Quote
                   first == IF comillas THEN i + 1 ELSE i
                   end == EndOfArgument(b, first, comillas)
                   next == IF comillas THEN end + 1 ELSE end
               IN  IF comillas /\ b[end] = NUL
                   THEN <<SubSeq(b, first, end - 1), Unclosed>>
                   ELSE <<SubSeq(b, first, end - 1)>> \o from[LEFT_STRIP(b, next)]
    IN  from

parse_command(b) == Arguments(b)[LEFT_STRIP(b, 1)]

argv == parse_command(buffer)
argc == Len(argv)
WellFormed == LET args == argv IN args # <<>> /\ Last(args) # Unclosed
Is(w) == phase = "typed" /\ WellFormed /\ argv[1] = w

-----------------------------------------------------------------------------
(* What a line means: a reference for parse_command and the consult loop.  *)

\* Where the i-th character of l is: between arguments, in one, or in quotes.
Mode(l) ==
    LET mode[i \in 0..Len(l)] ==
          IF i = 0 THEN "gap"
          ELSE LET was == mode[i - 1]
               IN  CASE was = "quoted" -> IF l[i] = Quote THEN "gap" ELSE "quoted"
                     [] was # "quoted" /\ l[i] = Blank -> "gap"
                     [] was = "gap" /\ l[i] = Quote -> "quoted"
                     [] OTHER -> "word"
    IN  mode

\* The words of l: one for each position where one starts.
Words(l) ==
    LET mode == Mode(l)
        starts == SetToSortSeq({i \in 1..Len(l) : mode[i - 1] = "gap" /\ l[i] # Blank}, <)
        WordAt(i) ==
            SubSeq(l, IF l[i] = Quote THEN i + 1 ELSE i,
                   Max({j \in i..Len(l) : \A m \in i..j : mode[m] # "gap"}))
    IN  [n \in 1..Len(starts) |-> WordAt(starts[n])]

Closed(l) == Mode(l)[Len(l)] # "quoted"

\* The number behind the last w among the words.
Given(words, w) ==
    LET at == {i \in 2..Len(words) : i % 2 = 0 /\ words[i] = w}
    IN  IF at = {} THEN -1 ELSE atoi(words[Max(at) + 1])

\* Lines with too many words or a word that is too long.
Oversized ==
    {l \in Lines : LET words == Words(l)
                   IN  \/ Len(words) > MAX_ARGS
                       \/ \E i \in DOMAIN words : Len(words[i]) >= CMD_BUFFER_SIZE}

\* What the heap has no room for: those, and a bare "ping" when a line may be
\* left in the buffer that is longer than the datagram of a bare "ping" (the
\* offset of its text is 2 here).
Risky(l, before) == l \in Oversized \/ (l = <<"p">> /\ before > CMD_ROOM + 2)

-----------------------------------------------------------------------------
(* main.                                                                   *)

IsCommand ==
    /\ phase = "typed"
    /\ String(buffer, 1) # <<"e">>
    /\ ~(build = "localclient" /\ buffer[1] = "s")

\* parse_command writes past the end of argv or of an argument, or ping past
\* the end of a datagram that has room for the line and not for the text.
Overrun ==
    \/ LET args == argv
       IN  \E i \in DOMAIN args :
              args[i] # Unclosed /\ (i > MAX_ARGS \/ Len(args[i]) >= CMD_BUFFER_SIZE)
    \/ /\ IsCommand /\ Is(<<"p">>)
       /\ Len(String(buffer, 3)) >= CMD_ROOM + Len(String(buffer, 1))

Prompt(d) ==
    /\ phase' = "prompt"
    /\ sent' = d
    /\ spoiled' = (spoiled \/ Overrun)
    /\ UNCHANGED <<build, buffer, typed, why, longest, risky>>

End(reason) ==
    /\ phase' = "ended"
    /\ why' = reason
    /\ UNCHANGED <<build, buffer, typed, isAdmin, delay, sent, spoiled, longest, risky>>

\* read: the rest of the buffer keeps what was there; an empty line is skipped.
Read(l) ==
    /\ phase = "prompt"
    /\ buffer' = [i \in 1..Size |-> IF i <= Len(l) THEN l[i]
                                    ELSE IF i = Len(l) + 1 THEN NUL ELSE buffer[i]]
    /\ typed' = l
    /\ phase' = IF l = <<>> THEN "prompt" ELSE "typed"
    /\ sent' = None
    /\ longest' = Max({longest, Len(l)})
    /\ risky' = (risky \/ Risky(l, longest))
    /\ UNCHANGED <<build, isAdmin, delay, spoiled, why>>

\* The line is "exit"; or the end of the input.
Exit ==
    /\ \/ phase = "typed" /\ String(buffer, 1) = <<"e">>
       \/ phase = "prompt"
    /\ End("exit")

Command(w, n) == IsCommand /\ Is(w) /\ argc = n

\* argv[0] of an argv that was never set; NULL if a quote was not closed.
\* Without any argument it may also be a string that is no command.
NoArguments ==
    /\ IsCommand
    /\ ~WellFormed
    /\ \/ End("null")
       \/ argc = 0 /\ Prompt(None) /\ UNCHANGED <<isAdmin, delay>>

\* What lies behind a block of the heap was overwritten: nothing happens (see
\* the other actions), or the process ends, on this line or later.
Overwritten ==
    /\ \/ phase = "typed" /\ Overrun
       \/ phase # "ended" /\ spoiled
    /\ End("overrun")

\* setdelay of the local client: the message "Comando invalido." does not keep
\* argv[1] from being used.  If it was never set it ends the process, or points
\* to a string of any number.
SetDelay ==
    /\ build = "localclient"
    /\ phase = "typed" /\ buffer[1] = "s"
    /\ \/ /\ WellFormed
          /\ delay' \in IF argc > 1 THEN {atoi(argv[2])} ELSE 0..2
          /\ Prompt(None) /\ UNCHANGED isAdmin
       \/ ~(WellFormed /\ argc > 1) /\ End("null")

-----------------------------------------------------------------------------
(* command_to_datagram.                                                    *)

Send(d) == Prompt(d) /\ UNCHANGED <<isAdmin, delay>>

\* Mutant: the offset is one too large.
PingOffset ==
    /\ IsCommand /\ Is(<<"p">>)
    /\ Send(Datagram("OP_PING", 0, 0, String(buffer, 4)))

\* strcpy from the sixth character of the buffer, which after a bare "ping" is
\* what an earlier line has left, of any length (see Overrun).
Ping ==
    /\ IsCommand /\ Is(<<"p">>)
    /\ Send(Datagram("OP_PING", 0, 0, String(buffer, 3)))

\* Mutant: the first "to" and the first "from" are the ones that count.
ConsultFirst ==
    LET after[i \in 1..argc] ==
          IF i <= 2 THEN Datagram("OP_CONSULT", -1, -1, <<>>)
          ELSE LET d == after[i - 2]
               IN  CASE d # None /\ argv[i - 1] = <<"t">> ->
                          [d EXCEPT !.b = IF @ = -1 THEN atoi(argv[i]) ELSE @]
                     [] d # None /\ argv[i - 1] = <<"f">> ->
                          [d EXCEPT !.a = IF @ = -1 THEN atoi(argv[i]) ELSE @]
                     [] OTHER -> None
    IN  IF argc % 2 = 0 THEN None ELSE after[argc]

\* The loop over "to" and "from", two arguments at a time: the datagram after
\* argument i, None after an error.
ConsultArguments ==
    LET after[i \in 1..argc] ==
          IF i <= 2 THEN Datagram("OP_CONSULT", -1, -1, <<>>)
          ELSE LET d == after[i - 2]
               IN  CASE d # None /\ argv[i - 1] = <<"t">> -> [d EXCEPT !.b = atoi(argv[i])]
                     [] d # None /\ argv[i - 1] = <<"f">> -> [d EXCEPT !.a = atoi(argv[i])]
                     [] OTHER -> None
    IN  IF argc % 2 = 0 THEN None ELSE after[argc]

Consult == IsCommand /\ Is(<<"c">>) /\ Send(ConsultArguments)

Purchase == Command(<<"b">>, 2) /\ Send(Datagram("OP_PURCHASE", atoi(argv[2]), 0, <<>>))
Cancel == Command(<<"x">>, 2) /\ Send(Datagram("OP_CANCEL", atoi(argv[2]), 0, <<>>))

AddFlight ==
    /\ Command(<<"a">>, 4)
    /\ isAdmin
    /\ Send(IF argv[4] = <<"d">>
            THEN Datagram("OP_ADDFLIGHT", atoi(argv[2]), atoi(argv[3]), argv[4])
            ELSE None)

MakeAdmin ==
    /\ IsCommand /\ Is(<<"m">>)
    /\ isAdmin' = TRUE
    /\ Prompt(None)
    /\ UNCHANGED delay

Help == IsCommand /\ Is(<<"h">>) /\ Send(None)

\* Everything else is refused.
Refuse ==
    /\ IsCommand /\ WellFormed
    /\ CASE argv[1] \in {<<"p">>, <<"c">>, <<"m">>, <<"h">>} -> FALSE
         [] argv[1] \in {<<"b">>, <<"x">>} -> argc # 2
         [] argv[1] = <<"a">> -> argc # 4 \/ ~isAdmin
         [] OTHER -> TRUE
    /\ Send(None)

-----------------------------------------------------------------------------
Init ==
    /\ build \in {"client", "localclient"}
    /\ phase = "prompt"
    /\ buffer = [i \in 1..Size |-> NUL]
    /\ typed = <<>>
    /\ isAdmin = FALSE
    /\ delay = 0
    /\ sent = None
    /\ spoiled = FALSE
    /\ why = "runs"
    /\ longest = 0 /\ risky = FALSE

Next ==
    \/ \E l \in Lines : Read(l)
    \/ Exit \/ NoArguments \/ Overwritten \/ SetDelay
    \/ Ping \/ Consult \/ Purchase \/ Cancel \/ AddFlight \/ MakeAdmin \/ Help \/ Refuse

Spec == Init /\ [][Next]_vars

-----------------------------------------------------------------------------
\* Types; the buffer always holds a string.
TypeOK ==
    /\ build \in {"client", "localclient"}
    /\ phase \in {"prompt", "typed", "ended"}
    /\ typed \in Lines \cup {<<>>}
    /\ DOMAIN buffer = 1..Size /\ String(buffer, 1) = typed
    /\ isAdmin \in BOOLEAN
    /\ delay \in Nat
    /\ sent.op \in {"none", "OP_PING", "OP_CONSULT", "OP_PURCHASE", "OP_CANCEL", "OP_ADDFLIGHT"}
    /\ {spoiled, risky} \subseteq BOOLEAN
    /\ why \in {"runs", "exit", "null", "overrun"}
    /\ longest \in Nat

\* parse_command finds the words of the line that was typed, quoted or not,
\* whatever an earlier line has left in the buffer behind it.
ParsesWords ==
    phase = "typed" =>
        argv = Words(typed) \o (IF Closed(typed) THEN <<>> ELSE <<Unclosed>>)

\* The prompt ends other than by "exit" only on a line with a quote that is not
\* closed or without a word, on a setdelay without a number; or on or after a
\* line with too many or too long words, or a bare "ping" after a line longer
\* than the datagram of "ping" has room for.
EndsOnly ==
    /\ why = "null" =>
          \/ ~Closed(typed)
          \/ Words(typed) = <<>>
          \/ build = "localclient" /\ Len(Words(typed)) = 1 /\ typed[1] = "s"
    /\ why = "overrun" => risky

\* The types, with the buffer holding the line that was typed; the words; and
\* how the prompt may end.
ParserInv == TypeOK /\ ParsesWords /\ EndsOnly

\* A consult is sent exactly when each number has its "from" or "to" before it,
\* in any order ("El orden de los argumentos es intercambiable"), and a later
\* one replaces an earlier one.
ConsultMeaning ==
    LET words == Words(typed)
        right == Len(words) % 2 = 1
                 /\ \A i \in 2..Len(words) : i % 2 = 0 => words[i] \in {<<"t">>, <<"f">>}
    IN  phase = "prompt" /\ words # <<>> /\ words[1] = <<"c">> =>
            sent = IF right THEN Datagram("OP_CONSULT", Given(words, <<"f">>),
                                          Given(words, <<"t">>), <<>>)
                   ELSE None

\* A ping carries the rest of the line if the line begins with "ping" and a
\* blank.  (After a bare "ping" it carries what an earlier line has left in the
\* buffer, where the help says "Envia una cadena de texto al servidor, y este
\* responde con la misma cadena".)
PingText ==
    phase = "prompt" /\ Len(typed) > 1 /\ typed[1] = "p" /\ typed[2] = Blank /\ sent.op = "OP_PING"
        => sent.text = SubSeq(typed, 3, Len(typed))
=============================================================================
