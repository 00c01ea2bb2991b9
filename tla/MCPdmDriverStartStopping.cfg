SPECIFICATION Spec

PROPERTY SuccessIsSampling
