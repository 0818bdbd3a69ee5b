------------------------ MODULE MCNumaJobQueueGroup ------------------------
(* Small groups: fewer threads than queues, as many, and more.             *)
EXTENDS NumaJobQueueGroup

OneToThree == 1 .. 3
OneToFive == 1 .. 5
=============================================================================
