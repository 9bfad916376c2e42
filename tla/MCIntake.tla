------------------------------ MODULE MCIntake ------------------------------
(* Small documents for Intake; a message and the file share a section. *)
EXTENDS Intake

CONSTANTS a, b, c

OneMail == <<{a, b}>>
ShortMails == <<{a}, {b}>>
LongMail == <<{a}, {a, b, c}>>

OneFile == <<{b, c}>>
NoFile == <<>>

=============================================================================
