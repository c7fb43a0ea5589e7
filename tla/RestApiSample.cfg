SPECIFICATION Spec
INVARIANTS
    SampleRequestRouted
