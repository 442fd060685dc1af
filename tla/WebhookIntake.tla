----------------------------- MODULE WebhookIntake -----------------------------
(***************************************************************************)
(* The GitLab webhook: the rate limiter in front of it and what a note     *)
(* makes the bot do.  A note is its lines that begin with the name of the  *)
(* bot, in order.  Time is counted in ticks; several hooks arrive in one.  *)
(* The handler is one step: it is an async function that awaits nothing    *)
(* after the body has been read.                                           *)
(***************************************************************************)
EXTENDS Integers, Sequences, FiniteSets

CONSTANTS
  Clients,    \* client addresses
  Limit,      \* _WEBHOOK_RATE_LIMIT
  Window,     \* _WEBHOOK_RATE_WINDOW, in ticks
  MaxTime,    \* bound: ticks
  Notes       \* notes that arrive: sequences of NoteLines

\* "bare" mentions, recognised commands, and text that is neither.
NoteLines == {"bare", "review", "full-report", "backlog", "help", "unknown"}

\* Assumed of the constants where the module is instantiated.
IntakeConstants ==
  /\ {Limit, Window} \subseteq Nat \ {0} /\ MaxTime \in Nat
  /\ \A n \in Notes : \A i \in DOMAIN n : n[i] \in NoteLines

VARIABLES
  now,        \* the clock
  bucket,     \* _rate_limit_buckets
  admitted,   \* times at which hooks of each client passed, a history
  reaction    \* what the last hook led to

vars == <<now, bucket, admitted, reaction>>

Reactions == {"none", "too_many", "wrong_secret", "other_event", "not_for_bot", "unknown_command",
              "own_note", "incomplete", "note_posted", "run"}

TypeOK ==
  /\ now \in 0..MaxTime
  /\ \A c \in Clients : /\ \A i \in DOMAIN bucket[c] : bucket[c][i] \in 0..now
                        /\ \A i \in DOMAIN admitted[c] : admitted[c][i] \in 0..now
  /\ reaction \in Reactions

Init ==
  /\ now = 0 /\ reaction = "none"
  /\ bucket = [c \in Clients |-> <<>>]
  /\ admitted = [c \in Clients |-> <<>>]

-------------------------------------------------------------------------------
\* Mutant: a time stamp that is a whole window old is dropped.
Current_HalfOpen(c) ==
  LET inside == {i \in DOMAIN bucket[c] : bucket[c][i] > now - Window}
  IN IF inside = {} THEN <<>>
     ELSE SubSeq(bucket[c], CHOOSE i \in inside : \A j \in inside : i <= j, Len(bucket[c]))

\* Time stamps are dropped from the left up to the first that is not older
\* than the window.
Current(c) ==
  LET inside == {i \in DOMAIN bucket[c] : bucket[c][i] >= now - Window}
  IN IF inside = {} THEN <<>>
     ELSE SubSeq(bucket[c], CHOOSE i \in inside : \A j \in inside : i <= j, Len(bucket[c]))

\* The first line that is a bare mention or a command decides; a line with
\* anything else is remembered as unknown.
Command(note) ==
  LET known == {i \in DOMAIN note : note[i] # "unknown"}
  IN IF note = <<>> THEN "not_for_bot"
     ELSE IF known = {} THEN "unknown_command"
     ELSE LET first == note[CHOOSE i \in known : \A j \in known : i <= j]
          IN IF first = "bare" THEN "review" ELSE first

\* What a note of an author leads to; incomplete payloads are refused.
Handled(note, author, complete) ==
  IF Command(note) \in {"not_for_bot", "unknown_command"} THEN Command(note)
  ELSE IF author = "bot" THEN "own_note"
  ELSE IF ~complete THEN "incomplete"
  ELSE IF Command(note) = "review" THEN "run" ELSE "note_posted"

Reads(secret, isNote, note, author, complete) ==
  IF ~secret THEN "wrong_secret"
  ELSE IF ~isNote THEN "other_event"
  ELSE Handled(note, author, complete)

Refuse(c) ==
  /\ Len(Current(c)) >= Limit
  /\ bucket' = [bucket EXCEPT ![c] = Current(c)]
  /\ reaction' = "too_many"
  /\ UNCHANGED <<now, admitted>>

Admit(c) ==
  /\ Len(Current(c)) < Limit
  /\ bucket' = [bucket EXCEPT ![c] = Append(Current(c), now)]
  /\ admitted' = [admitted EXCEPT ![c] = Append(@, now)]
  /\ \E secret, isNote, complete \in BOOLEAN, note \in Notes, author \in {"person", "bot"} :
        reaction' = Reads(secret, isNote, note, author, complete)
  /\ UNCHANGED now

Tick ==
  /\ now < MaxTime /\ now' = now + 1
  /\ UNCHANGED <<bucket, admitted, reaction>>

Next == Tick \/ \E c \in Clients : Refuse(c) \/ Admit(c)

Spec == Init /\ [][Next]_vars

-------------------------------------------------------------------------------
AdmittedIn(c, from, to) == {i \in DOMAIN admitted[c] : admitted[c][i] \in from..to}

\* No client gets more than the limit through in any window, both of its ends
\* included, wherever the window begins.
RateHolds ==
  \A c \in Clients : \A t \in 0..now : Cardinality(AdmittedIn(c, t, t + Window)) <= Limit
================================================================================
