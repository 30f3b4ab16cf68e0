SPECIFICATION Spec
INVARIANT EnvSatisfiesRequired
