---------------------------- MODULE MCConfigStore ----------------------------
(* ConfigStore for TLC: a provider the operator has a key for and one that *)
(* takes none; saves that add, keep, drop and reorder fallbacks; the files *)
(* imported point into a vault or bring no key.                            *)
EXTENDS ConfigStore, TLC

CONSTANTS openai, ollama, neo

Interchangeable == Permutations(Admins)

Keyed(p) == [provider |-> p, typed |-> TRUE]
Bare(p)  == [provider |-> p, typed |-> FALSE]
Saves ==
    {[own |-> Bare(openai),  chain |-> <<>>],
     [own |-> Keyed(openai), chain |-> <<Keyed(openai)>>],
     [own |-> Bare(ollama),  chain |-> <<Bare(openai)>>],
     [own |-> Bare(openai),  chain |-> <<Keyed(openai), Keyed(ollama)>>],
     [own |-> Bare(openai),  chain |-> <<Keyed(openai), Bare(ollama)>>],
     [own |-> Keyed(ollama), chain |-> <<Bare(ollama), Keyed(openai)>>]}

Fallback == <<[provider |-> openai, ref |-> Pointer]>>
Files == {[Plain(openai, Pointer) EXCEPT !.chain = Fallback],
          [Plain(ollama, None) EXCEPT !.price = TRUE]}
Fresh == [live |-> [s \in Scopes |-> None], versions |-> {}]

\* An organization that has saved its default twice.
First  == Plain(openai, Typed(openai, None))
Second == [First EXCEPT !.chain = <<[provider |-> openai, ref |-> Typed(openai, None)]>>]
Settled == [live |-> [s \in Scopes |-> IF s = Org THEN Second ELSE Plain(openai, None)],
            versions |-> {[at |-> 0, scope |-> Org, snapshot |-> First, after |-> Second]}]
Before == {Fresh, Settled}
PersonaFiles == {Plain(openai, None)}
=============================================================================
