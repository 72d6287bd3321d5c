------------------------------ MODULE Transport ------------------------------
(***************************************************************************)
(* How a command of the Atari reaches the main loop and its answer goes    *)
(* back: the parser of src/romemul/tprotocol.c, which the interrupt of the *)
(* lookup channel feeds with one word for every read of ROM3, the one      *)
(* command that can be active, and the random token in shared memory.      *)
(*                                                                         *)
(* The Atari is external: it sends a header, a command, the size of the    *)
(* payload in bytes and the payload, which begins with a token of its own, *)
(* and waits for that token to appear.  It may give up and ask again, it   *)
(* may be reset in the middle of a transmission, and other reads of ROM3   *)
(* may look like words of one.                                             *)
(***************************************************************************)
EXTENDS Integers, Sequences, FiniteSets

CONSTANTS
    Header,    \* PROTOCOL_HEADER
    Commands,
    Params,    \* words after the token: none, or one of these
    Limit,     \* one more than the largest word
    MaxWords,  \* MAX_PROTOCOL_PAYLOAD_SIZE in words
    None,      \* 0xFFFF in active_command_id
    MaxSent,   \* transmissions (bound of the model)
    MaxFaults  \* pauses, resets, stray reads and times the Atari gives up (bound of the model)

Transmissions == 1..MaxSent
\* The Atari draws it anew each time; that it is another word by chance is left out.
Token(n) == 4 + n
Values == {Header} \cup Commands \cup Params \cup {2, 4} \cup {Token(n) : n \in Transmissions}
Words == [v : Values \cup {0}, of : 0..MaxSent]
NoWord == [v |-> 0, of |-> 0]

ASSUME ConstantsAssumption ==
    /\ Header \in Nat \ {0}
    /\ Commands \subseteq Nat \ {0}
    /\ Params \subseteq Nat \ {0}
    /\ MaxWords \in Nat /\ MaxWords > 1
    /\ Limit \in Nat /\ Limit > 4 /\ \A v \in Values : v < Limit
    /\ MaxSent \in Nat
    /\ MaxFaults \in Nat
    /\ None \notin Values
    /\ \A n \in Transmissions : Token(n) \notin {Header} \cup Commands \cup Params

VARIABLES
    step,          \* nextTPstep
    command_id,    \* transmission
    payload_size,
    bytes_read,
    payload,
    expired,       \* 10 ms have passed since last_header_found
    active,        \* active_command_id
    random_token,
    shown,         \* GEMDRVEMUL_RANDOM_TOKEN
    pc,            \* the main loop
    line,          \* words the Atari has still to send (external)
    awaited,       \* what it waits for (external)
    sent,
    faults,
    dirty,         \* history: stray words since the last silence
    job,           \* history: the words the active command came with
    used,          \* history: the transmissions whose words its handler has read
    last,          \* history: the transmissions the latest command was read from
    dropped,       \* history: it was dropped
    overrun,       \* history: a word was stored beyond the buffer
    answer         \* history: what the Atari took for an answer; of 0 if it was disturbed

parserVars == <<step, command_id, payload_size, bytes_read, payload, expired>>
picoVars == <<active, random_token, shown, pc, job, used>>
atariVars == <<line, awaited, sent, faults, answer>>
vars == <<parserVars, picoVars, atariVars, dirty, last, dropped, overrun>>

Steps == {"header", "command", "size", "payload"}
NoJob == [of |-> {}, words |-> 0]
Nothing == [of |-> 0, clean |-> FALSE]
NoAnswer == [of |-> 0, by |-> {}]

TypeOK ==
    /\ step \in Steps
    /\ command_id \in Words
    /\ payload_size \in Values \cup {0}
    /\ bytes_read \in Nat /\ (bytes_read = 0 \/ bytes_read < payload_size)
    /\ payload \in [1..MaxWords -> Words]
    /\ active \in Values \cup {0, None}
    /\ random_token \in Values \cup {0}
    /\ shown \in Values \cup {0}
    /\ pc \in {"loop", "run", "answered"}
    /\ line \in Seq(Words)
    /\ awaited \in [of : 0..MaxSent, clean : BOOLEAN]
    /\ sent \in 0..MaxSent
    /\ faults \in 0..MaxFaults
    /\ {expired, dirty, dropped, overrun} \subseteq BOOLEAN
    /\ job \in [of : SUBSET (0..MaxSent), words : Nat]
    /\ {used, last, answer.by} \subseteq SUBSET (0..MaxSent)
    /\ answer.of \in 0..MaxSent

Init ==
    /\ step = "header"
    /\ command_id = NoWord
    /\ payload_size = 0
    /\ bytes_read = 0
    /\ payload = [i \in 1..MaxWords |-> NoWord]
    /\ expired = TRUE
    /\ active = None
    /\ random_token = 0
    /\ shown = 0
    /\ pc = "loop"
    /\ line = <<>>
    /\ awaited = Nothing
    /\ sent = 0
    /\ faults = 0
    /\ dirty = FALSE
    /\ job = NoJob
    /\ used = {}
    /\ last = {}
    /\ dropped = FALSE
    /\ overrun = FALSE
    /\ answer = NoAnswer

Fault ==
    /\ faults < MaxFaults
    /\ faults' = faults + 1

-----------------------------------------------------------------------------
(* The interrupt: gemdrvemul_dma_irq_handler_lookup_callback, parse_protocol *)

\* The transmissions the first n words of a payload came with.
From(buffer, n) == {buffer[i].of : i \in 1..(IF n < MaxWords THEN n ELSE MaxWords)}

\* Mutant: the command is taken whether one is active or not.
HandleAlways(id, buffer, n) ==
    /\ last' = {id.of} \cup From(buffer, n)
    /\ active' = id.v
    /\ random_token' = buffer[1].v
    /\ job' = [of |-> {id.of}, words |-> n]
    /\ dropped' = FALSE

\* handle_protocol_command: dropped while another command is active.
Handle(id, buffer, n) ==
    /\ last' = {id.of} \cup From(buffer, n)
    /\ IF active = None
       THEN /\ active' = id.v
            /\ random_token' = buffer[1].v
            /\ job' = [of |-> {id.of}, words |-> n]
            /\ dropped' = FALSE
       ELSE /\ dropped' = TRUE
            /\ UNCHANGED <<active, random_token, job>>

\* process_command: by then the payload is in the one buffer there is.
Process(id, buffer, n) ==
    /\ Handle(id, buffer, n)
    /\ payload' = buffer
    /\ command_id' = NoWord
    /\ payload_size' = 0
    /\ bytes_read' = 0
    /\ expired' = TRUE
    /\ step' = "header"

NoCommand == UNCHANGED <<active, random_token, job, last, dropped>>

\* Mutant: a silence is not noticed.
AtAnyhow == step

\* 10 ms after the header the rest of a transmission is not waited for.
At == IF expired THEN "header" ELSE step

DetectHeader(w) ==
    /\ At = "header"
    /\ step' = IF w.v = Header THEN "command" ELSE "header"
    /\ expired' = FALSE
    /\ UNCHANGED <<command_id, payload_size, bytes_read, payload>>
    /\ NoCommand

ReadCommand(w) ==
    /\ At = "command"
    /\ command_id' = w
    /\ step' = "size"
    /\ UNCHANGED <<payload_size, bytes_read, payload, expired>>
    /\ NoCommand

ReadPayloadSize(w) ==
    /\ At = "size"
    /\ w.v > 0
    /\ payload_size' = w.v
    /\ bytes_read' = 0
    /\ step' = "payload"
    /\ UNCHANGED <<command_id, payload, expired>>
    /\ NoCommand

\* A command without a payload: the token is what the buffer begins with.
ReadNoPayload(w) ==
    /\ At = "size"
    /\ w.v = 0
    /\ Process(command_id, payload, 0)

\* The word is stored at bytes_read, whatever the size of the buffer; of what it
\* then meets beyond the buffer nothing is known here.
Beyond == At = "payload" /\ bytes_read \div 2 >= MaxWords

Stored(w) == [i \in 1..MaxWords |-> IF i = bytes_read \div 2 + 1 THEN w ELSE payload[i]]

\* uint16_t
Grown == (bytes_read + 2) % Limit

ReadOn(w) ==
    /\ payload' = Stored(w)
    /\ bytes_read' = Grown
    /\ UNCHANGED <<step, command_id, payload_size, expired>>
    /\ NoCommand

\* Mutant: an odd size is never reached.
ReadPayloadExactly(w) ==
    /\ At = "payload"
    /\ IF Grown = payload_size THEN Process(command_id, Stored(w), Grown \div 2) ELSE ReadOn(w)

ReadPayload(w) ==
    /\ At = "payload"
    /\ IF Grown >= payload_size THEN Process(command_id, Stored(w), Grown \div 2) ELSE ReadOn(w)

Parse(w) ==
    /\ \/ DetectHeader(w) \/ ReadCommand(w)
       \/ ReadPayloadSize(w) \/ ReadNoPayload(w) \/ ReadPayload(w)
    /\ overrun' = (overrun \/ Beyond)

-----------------------------------------------------------------------------
(* The main loop *)

\* The handler of the active command reads its arguments, from the buffer the
\* interrupt goes on writing to.
Run ==
    /\ pc = "loop"
    /\ active # None
    /\ pc' = "run"
    /\ used' = job.of \cup From(payload, job.words)
    /\ UNCHANGED <<active, random_token, shown, job, parserVars, atariVars, dirty, last, dropped, overrun>>

\* It reads on (what is to be written to a file stays there all along), then
\* write_random_token.
Answer ==
    /\ pc = "run"
    /\ pc' = "answered"
    /\ used' = used \cup From(payload, job.words)
    /\ shown' = random_token
    /\ UNCHANGED <<active, random_token, job, parserVars, atariVars, dirty, last, dropped, overrun>>

\* active_command_id = 0xFFFF
Finish ==
    /\ pc = "answered"
    /\ pc' = "loop"
    /\ active' = None
    /\ UNCHANGED <<random_token, shown, job, used, parserVars, atariVars, dirty, last, dropped, overrun>>

-----------------------------------------------------------------------------
(* The Atari *)

Sequence(n, c, p) ==
    LET words == <<Header, c, 2 * (1 + Len(p)), Token(n)>> \o p
    IN  [i \in DOMAIN words |-> [v |-> words[i], of |-> n]]

Ask ==
    /\ line = <<>>
    /\ awaited = Nothing
    /\ sent < MaxSent
    /\ sent' = sent + 1
    /\ awaited' = [of |-> sent', clean |-> ~dirty]
    /\ \E c \in Commands, p \in {<<>>} \cup {<<v>> : v \in Params} :
           line' = Sequence(sent', c, p)
    /\ UNCHANGED <<faults, answer, parserVars, picoVars, dirty, last, dropped, overrun>>

SendWord ==
    /\ line # <<>>
    /\ line' = Tail(line)
    /\ Parse(Head(line))
    /\ UNCHANGED <<awaited, sent, faults, answer, shown, pc, used, dirty>>

\* A read of ROM3 that is no word of a transmission.
StrayRead ==
    /\ line = <<>>
    /\ Fault
    /\ \E v \in {Header, 0} \cup Commands : Parse([v |-> v, of |-> 0])
    /\ dirty' = TRUE
    /\ awaited' = [awaited EXCEPT !.clean = FALSE]
    /\ UNCHANGED <<line, sent, answer, shown, pc, used>>

\* 10 ms without a word.
Silence ==
    /\ line = <<>>
    /\ expired' = TRUE
    /\ dirty' = FALSE
    /\ UNCHANGED <<step, command_id, payload_size, bytes_read, payload, picoVars, atariVars,
                   last, dropped, overrun>>

\* The same in the middle of a transmission.
Pause ==
    /\ line # <<>>
    /\ Fault
    /\ expired' = TRUE
    /\ dirty' = TRUE
    /\ awaited' = [awaited EXCEPT !.clean = FALSE]
    /\ UNCHANGED <<step, command_id, payload_size, bytes_read, payload, picoVars, line, sent,
                   answer, last, dropped, overrun>>

\* A reset; it takes longer than 10 ms.
Reset ==
    /\ Fault
    /\ line' = <<>>
    /\ awaited' = Nothing
    /\ expired' = TRUE
    /\ dirty' = FALSE
    /\ UNCHANGED <<step, command_id, payload_size, bytes_read, payload, picoVars, sent,
                   answer, last, dropped, overrun>>

GiveUp ==
    /\ line = <<>>
    /\ awaited # Nothing
    /\ Fault
    /\ awaited' = Nothing
    /\ UNCHANGED <<line, sent, answer, parserVars, picoVars, dirty, last, dropped, overrun>>

SeeToken ==
    /\ line = <<>>
    /\ awaited # Nothing
    /\ shown = Token(awaited.of)
    /\ awaited' = Nothing
    /\ answer' = [of |-> IF awaited.clean THEN awaited.of ELSE 0, by |-> used]
    /\ UNCHANGED <<line, sent, faults, parserVars, picoVars, dirty, last, dropped, overrun>>

Next ==
    \/ SendWord \/ StrayRead \/ Silence \/ Pause
    \/ Run \/ Answer \/ Finish
    \/ Ask \/ SeeToken \/ GiveUp \/ Reset

Spec == Init /\ [][Next]_vars

-----------------------------------------------------------------------------
(* Properties. *)

(***************************************************************************)
(* Of memory beyond the buffer a word is stored only after a stray word or *)
(* a pause, and before the next silence: 10 ms (tprotocol.c:111) are all   *)
(* that keeps the parser within its buffer, whose size it never looks at.  *)
(***************************************************************************)
OverrunIsADisturbance == [][~overrun /\ overrun' => dirty]_vars

(***************************************************************************)
(* The token says that this very command has been carried out, with the    *)
(* words it was sent with, however often the Atari gave up before or was   *)
(* reset, if nothing else is read while it waits                           *)
(* (docs/sidetnfs-config-protocol.md:405-412), and no word was ever stored *)
(* beyond the buffer.                                                      *)
(***************************************************************************)
AnswerIsOfTheCommand == ~overrun /\ answer.of # 0 => answer.by = {answer.of}

(***************************************************************************)
(* What was sent after a silence, without a pause, is taken whole; after a *)
(* transmission that broke off, too.  Then, unless another command was     *)
(* active, its answer comes.                                               *)
(***************************************************************************)
NothingIsLost ==
    ~overrun /\ awaited # Nothing /\ awaited.clean /\ line = <<>> =>
        /\ last = {awaited.of}
        /\ dropped \/ active # None \/ shown = Token(awaited.of)

(***************************************************************************)
(* The two together: what an Atari sends by the rules arrives, and it is   *)
(* never what takes the parser out of its buffer (tprotocol.c:41-60, 111). *)
(***************************************************************************)
TransmissionsArrive == [][NothingIsLost' /\ (~overrun /\ overrun' => dirty)]_vars
============================================================================
