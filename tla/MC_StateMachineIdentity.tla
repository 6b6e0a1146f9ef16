----------------------- MODULE MC_StateMachineIdentity -----------------------
(* Inputs of up to four characters over two spellings of POLKADOT, KUSAMA,*)
(* a one-letter word, three digits and the dash: enough for formatted     *)
(* identities, a missing or empty suffix, a suffix with a trailing letter *)
(* or a second dash, and lower-case networks.                             *)
EXTENDS StateMachineIdentity

MCWords == {"POLKADOT", "polkadot", "KUSAMA", "x", "X"}
MCUpperOf ==
  [w \in MCWords |-> CASE w = "polkadot" -> "POLKADOT"
                       [] w = "x" -> "X"
                       [] OTHER -> w]
MCInputChars == {"POLKADOT", "polkadot", "KUSAMA", "x", "0", "1", "7", Dash}

=============================================================================
