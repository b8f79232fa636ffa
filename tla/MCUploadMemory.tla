----------------------------- MODULE MCUploadMemory -----------------------------
EXTENDS UploadMemory

\* No system, one with signals in the first tid only, and two with signals in
\* both; a buffer for one tid or for each, and a size that the host refused.
MCSignalPkts ==
  [tids : {<<>>, <<{1}>>, <<Tids, {2}>>}, size : {<<8, 0>>, <<8, 8>>, <<8, -1>>, <<-1, 8>>}]

MCTriggerPkts == {0, 8, 16}
===============================================================================
