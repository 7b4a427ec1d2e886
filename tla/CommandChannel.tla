---------------------------- MODULE CommandChannel ----------------------------
(***************************************************************************)
(* What the SPI link promises, without buffers, interrupts or time-outs:   *)
(* commands are issued one at a time, each a snapshot of the cache; what   *)
(* is sent, again or not, is always the last one issued; the next one has  *)
(* to wait until the Teensy has answered, which it does only for a command *)
(* it has heard, or until the command was sent MaxSends times.             *)
(***************************************************************************)
EXTENDS Naturals

CONSTANTS MaxSends

VARIABLES
  switch,   \* the motor switch in the cache
  command,  \* the last command issued
  open,     \* it waits for an answer
  sends,    \* how often it was sent
  heard     \* the last command the Teensy heard

vars == <<switch, command, open, sends, heard>>

NoCommand == [seq |-> 0, motor |-> FALSE]

Init ==
  /\ switch = TRUE /\ command = NoCommand /\ open = FALSE /\ sends = 0
  /\ heard = NoCommand

Switch == switch' = ~switch /\ UNCHANGED <<command, open, sends, heard>>

\* A tried command may be replaced; an answered one, too.
Issue ==
  /\ open => sends = MaxSends
  /\ command' = [seq |-> command'.seq, motor |-> switch] /\ command'.seq > command.seq
  /\ open' = TRUE /\ sends' = 0
  /\ UNCHANGED <<switch, heard>>

\* It may get lost.
Send ==
  /\ sends < MaxSends /\ sends' = sends + 1
  /\ heard' = command \/ UNCHANGED heard
  /\ UNCHANGED <<switch, command, open>>

Answered ==
  /\ open /\ heard = command /\ open' = FALSE
  /\ UNCHANGED <<switch, command, sends, heard>>

Next == Switch \/ Issue \/ Send \/ Answered

Spec == Init /\ [][Next]_vars
=============================================================================
