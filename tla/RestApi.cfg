SPECIFICATION Spec
INVARIANTS
    AnsweredOnce
    OnlyAuthorized
    RefusedWithoutEffect
    GivenTokensAccepted
