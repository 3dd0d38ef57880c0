------------------------------ MODULE Profile ------------------------------
(***************************************************************************)
(* Who a node is: the coinbase in gbrick.profile and the key file of that  *)
(* name in keystore/.  The node process loads the profile; the script at   *)
(* the end of gbrickprofile.py loads it and writes it again, while the     *)
(* node may be starting.  PASSWORD comes from the site's property.py.      *)
(***************************************************************************)
EXTENDS Naturals, FiniteSets

CONSTANTS
    Address,     \* what generate_address may return
    Process,     \* processes, each with its GbrickProfile singleton
    Empty,       \* the coinbase '' of a profile written by default
    Absent, Cut, \* no file; a file that is opened and not written yet
    None         \* not loaded

VARIABLES
    profile,          \* the file: its coinbase, Absent or Cut
    keystore,         \* the addresses that have a whole key file
    address_coinbase, \* of each process that has loaded the profile
    private_key,      \* whether load_keystore gave it a key
    writing,          \* the processes between open and write
    known             \* history: the coinbases a process has loaded

vars ==
    <<profile, keystore, address_coinbase, private_key, writing, known>>

Init ==
    /\ profile \in Address \cup {Empty, Absent}
    /\ keystore \in SUBSET (Address \cap {profile})
    /\ address_coinbase = [p \in Process |-> None]
    /\ private_key = [p \in Process |-> FALSE]
    /\ writing = {}
    /\ known = {}

\* loads of a profile that names a coinbase.  load_keystore returns None when
\* the file is not there, cannot be decrypted or is only half of one.
loads(p) ==
    /\ address_coinbase[p] = None
    /\ profile \in Address
    /\ address_coinbase' = [address_coinbase EXCEPT ![p] = profile]
    /\ private_key' = [private_key EXCEPT ![p] = profile \in keystore]
    /\ known' = known \cup {profile}
    /\ UNCHANGED <<profile, keystore, writing>>

\* Mutant: create_account returns bytes, so loads goes on with the address.
CreateAccountBytes(p) ==
    /\ address_coinbase[p] = None
    /\ profile = Empty
    /\ \E a \in Address \ keystore :
        /\ keystore' = keystore \cup {a}
        /\ address_coinbase' = [address_coinbase EXCEPT ![p] = a]
        /\ private_key' = [private_key EXCEPT ![p] = TRUE]
        /\ known' = known \cup {a}
    /\ UNCHANGED <<profile, writing>>

\* loads of a profile without a coinbase: create_account writes a key file
\* for a new address and returns it as a str, which has no decode.  The
\* exception ends the process, the key file stays.  A profile that is Absent
\* or Cut is an exception too, with no trace.
CreateAccount(p) ==
    /\ address_coinbase[p] = None
    /\ profile = Empty
    /\ \E a \in Address \ keystore : keystore' = keystore \cup {a}
    /\ UNCHANGED <<profile, address_coinbase, private_key, writing, known>>

\* write: open for writing cuts the file, then the text goes into it.
OpenProfile(p) ==
    /\ address_coinbase[p] # None /\ p \notin writing
    /\ writing' = writing \cup {p}
    /\ profile' = Cut
    /\ UNCHANGED <<keystore, address_coinbase, private_key, known>>

WriteProfile(p) ==
    /\ p \in writing
    /\ writing' = writing \ {p}
    /\ profile' = address_coinbase[p]
    /\ UNCHANGED <<keystore, address_coinbase, private_key, known>>

\* The process ends, be it between open and write.
End(p) ==
    /\ address_coinbase[p] # None
    /\ address_coinbase' = [address_coinbase EXCEPT ![p] = None]
    /\ private_key' = [private_key EXCEPT ![p] = FALSE]
    /\ writing' = writing \ {p}
    /\ UNCHANGED <<profile, keystore, known>>

Next ==
    \E p \in Process :
        \/ loads(p) \/ CreateAccount(p)
        \/ OpenProfile(p) \/ WriteProfile(p) \/ End(p)

Spec == Init /\ [][Next]_vars

-----------------------------------------------------------------------------
(* Over starts, crashes and writes cut in half a node has one coinbase: it   *)
(* loads the one it had or none, and the profile never names another.        *)
IdentityStays ==
    /\ Cardinality(known) <= 1
    /\ known # {} => profile \in known \cup {Cut}
=============================================================================
