---------------------------- MODULE MCPasswords ----------------------------
EXTENDS Passwords, TLC

CONSTANTS p1, p2

(* N of DefaultConfig takes three bytes. *)
MCDefault == [N |-> 32768, R |-> 8, P |-> 1, SaltLen |-> 2, HashLen |-> 3]
MCOther   == [MCDefault EXCEPT !.N = 64]

MCSalts(len) == {[i \in 1 .. len |-> b] : b \in {7, 200}}

(* Stands for scrypt: a key is told apart by password, N and salt. *)
MCKey(c, pw, salt) == [i \in 1 .. c.HashLen |-> (pw * 60 + c.N \div 64 + 131 * salt[1] * i + salt[Len(salt)]) % 256]

ProcessSymmetry == Permutations(Process)
=============================================================================
