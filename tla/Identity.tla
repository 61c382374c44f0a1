------------------------------ MODULE Identity ------------------------------
(***************************************************************************)
(* The identity of a node across its starts (synergos-net/src/identity.rs).*)
(* A start loads identity.key or, if there is none, generates a key and    *)
(* saves it, encrypted when a passphrase is set.  It may die at any point, *)
(* and two starts may overlap.                                             *)
(*                                                                         *)
(* A key stands for the pair and the PeerId derived from it.  A file is    *)
(* what it was written as: a key under a passphrase or under None.         *)
(***************************************************************************)
EXTENDS Naturals

CONSTANTS Starts, Keys, Passphrases,
          None       \* SYNERGOS_IDENTITY_PASSPHRASE unset or empty

VARIABLES file,      \* identity.key: missing, torn, or written
          env,       \* the passphrase in the environment of new starts
          start,     \* per start: where it is, its passphrase and its key
          fresh,     \* keys the random source has not given out
          raced,     \* history: did a start look while another was saving?
          used       \* history: the keys some start has served as

identityVars == <<file, env, start, fresh, raced, used>>

Missing == [is |-> "missing"]
Torn    == [is |-> "torn"]
NoKey   == "nokey"
Unbegun == [at |-> "unbegun", pw |-> None, key |-> NoKey]

At(s, step) == start[s].at = step

Init ==
    /\ file = Missing /\ env \in Passphrases \cup {None}
    /\ start = [s \in Starts |-> Unbegun]
    /\ fresh = Keys /\ raced = FALSE /\ used = {}

-----------------------------------------------------------------------------
passphrase_from_env == env

(* What the file holds under a passphrase.                                 *)
encode_encrypted(key, pw) == [is |-> "encrypted", key |-> key, pw |-> pw]
plaintext(key) == [is |-> "plain", key |-> key]

(* decode_encrypted: another passphrase does not decrypt it.               *)
decode_encrypted(f, pw) == IF f.pw = pw THEN f.key ELSE NoKey

(* decode_key_bytes: the magic tells the two forms apart; other lengths    *)
(* are refused.                                                            *)
decode_key_bytes(f, pw) ==
    CASE f.is = "encrypted" -> IF pw = None THEN NoKey ELSE decode_encrypted(f, pw)
      [] f.is = "plain" -> f.key
      [] OTHER -> NoKey

Serve(s, key) ==
    /\ start' = [start EXCEPT ![s].at = "running", ![s].key = key]
    /\ used' = used \cup {key}

Saving == {s \in Starts : start[s].at \in {"generate", "save", "write"}}

(* load_or_generate: is there a file?                                      *)
load_or_generate(s) ==
    /\ At(s, "unbegun")
    /\ start' = [start EXCEPT ![s] = [Unbegun EXCEPT !.pw = passphrase_from_env,
                   !.at = IF file = Missing THEN "generate" ELSE "load"]]
    /\ raced' = (raced \/ Saving # {})
    /\ UNCHANGED <<file, env, fresh, used>>

(* Mutant: a file that cannot be read is replaced.                         *)
load_from_file_or_new(s) ==
    /\ At(s, "load")
    /\ LET key == decode_key_bytes(file, start[s].pw) IN
       IF key # NoKey THEN Serve(s, key)
       ELSE start' = [start EXCEPT ![s].at = "generate"] /\ UNCHANGED used
    /\ UNCHANGED <<file, env, fresh, raced>>

(* load_from_file: what cannot be decoded ends the start.                  *)
load_from_file(s) ==
    /\ At(s, "load")
    /\ LET key == decode_key_bytes(file, start[s].pw) IN
       IF key # NoKey THEN Serve(s, key)
       ELSE start' = [start EXCEPT ![s].at = "ended"] /\ UNCHANGED used
    /\ UNCHANGED <<file, env, fresh, raced>>

generate(s) ==
    /\ At(s, "generate")
    /\ \E k \in fresh : /\ fresh' = fresh \ {k}
                        /\ start' = [start EXCEPT ![s].at = "save", ![s].key = k]
    /\ UNCHANGED <<file, env, raced, used>>

(* save_to_file: the file is created or truncated, then written, then made *)
(* private.                                                                *)
save_to_file(s) ==
    /\ At(s, "save")
    /\ file' = Torn
    /\ start' = [start EXCEPT ![s].at = "write"]
    /\ UNCHANGED <<env, fresh, raced, used>>

write(s) ==
    /\ At(s, "write")
    /\ file' = IF start[s].pw = None THEN plaintext(start[s].key)
               ELSE encode_encrypted(start[s].key, start[s].pw)
    /\ start' = [start EXCEPT ![s].at = "chmod"]
    /\ UNCHANGED <<env, fresh, raced, used>>

set_permissions(s) ==
    /\ At(s, "chmod")
    /\ \/ Serve(s, start[s].key)
       \/ start' = [start EXCEPT ![s].at = "ended"] /\ UNCHANGED used
    /\ UNCHANGED <<file, env, fresh, raced>>

(* A start dies, or the daemon stops; it is started again.                 *)
Die(s) ==
    /\ start[s].at # "unbegun"
    /\ start' = [start EXCEPT ![s] = Unbegun]
    /\ UNCHANGED <<file, env, fresh, raced, used>>

(* The passphrase is set, changed or removed.                              *)
SetPassphrase ==
    /\ env' \in (Passphrases \cup {None}) \ {env}
    /\ UNCHANGED <<file, start, fresh, raced, used>>

Next ==
    \/ \E s \in Starts :
         \/ load_or_generate(s) \/ load_from_file(s) \/ generate(s)
         \/ save_to_file(s) \/ write(s) \/ set_permissions(s) \/ Die(s)
    \/ SetPassphrase

-----------------------------------------------------------------------------
(* Who a node is does not change: all the starts that serve do so under    *)
(* one identity, and it is the one in the file, whatever passphrase they   *)
(* were given and wherever earlier ones died; unless a start looked for    *)
(* the file while another was about to write it (load_or_generate).        *)
IdentityStable == ~raced =>
    /\ \A j, k \in used : j = k
    /\ \A k \in used : file.is \in {"plain", "encrypted"} /\ file.key = k
=============================================================================
