\* One context, driven by the scheduler until it ends.
SPECIFICATION Spec
INVARIANTS NonPreemptive MutexUse Rotation
PROPERTIES HandedOver Alternation
