--------------------------- MODULE MCKafkaConsumer ---------------------------
\* Its run checks liveness, under which no symmetry set is sound.
EXTENDS KafkaConsumer
==============================================================================
