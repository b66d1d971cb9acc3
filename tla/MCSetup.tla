------------------------------ MODULE MCSetup ------------------------------
(***************************************************************************)
(* Small instances of Setup: one REST repository behind HTTP basic auth    *)
(* and one repository reached without credentials.                         *)
(***************************************************************************)
EXTENDS Setup, TLC

CONSTANTS nas, usb,      \* the two URLs
          p1, p2,        \* repository passwords
          alice,         \* a REST-server username
          r1, r2,        \* REST-server passwords
          home, work     \* set names, of which the user adds `work' by hand

MCURLs == {nas, usb}
MCRestURLs == {nas}
MCPasswords == {p1, p2}
MCUsers == {alice}
MCRestPasswords == {r1, r2}
MCCredentials == {alice, Blank} \X {r1, r2, Blank}

\* The REST server wants alice and r1; the other URL is a local path.
MCAccepts == (nas :> {<<alice, r1>>}) @@ (usb :> MCCredentials)

OneSet == {home}
=============================================================================
