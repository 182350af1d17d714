------------------------------- MODULE Selection -------------------------------
\* What the models pick from a sequence: some of it, in the order it has there.  It takes
\* no more than Folds: whoever instantiates a module takes all that the module extends.
EXTENDS Naturals, Sequences, Folds

\* [x for x in seq if x in S]: a fold that takes the last place last.
Among(seq, S) ==
  MapThenFoldSet(LAMBDA x, kept : IF x \in S THEN Append(kept, x) ELSE kept, <<>>,
                 LAMBDA i : seq[i], LAMBDA I : CHOOSE i \in I : \A j \in I : i >= j, DOMAIN seq)

\* Those of its places that are in I, and what stands at these.
Places(seq, I) == Among([i \in DOMAIN seq |-> i], I)
At(seq, I)     == [k \in DOMAIN Places(seq, I) |-> seq[Places(seq, I)[k]]]

\* Each once, where it stands first.
Distinct(seq) == At(seq, {i \in DOMAIN seq : \A j \in 1..(i - 1) : seq[j] # seq[i]})

\* All that is in the sequences, one after the other.
Joined(seqs) ==
  LET upto[i \in 0..Len(seqs)] == IF i = 0 THEN <<>> ELSE upto[i - 1] \o seqs[i]
  IN upto[Len(seqs)]
=============================================================================
