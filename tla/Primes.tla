------------------------------- MODULE Primes -------------------------------
(* The sizes of hash tables (map.c): prime numbers.                         *)
EXTENDS Integers

IsPrime(n) == n > 1 /\ \A k \in 2..n - 1 : n % k # 0
getPrime[n \in Nat] == IF IsPrime(n) THEN n ELSE getPrime[n + 1]

=============================================================================
