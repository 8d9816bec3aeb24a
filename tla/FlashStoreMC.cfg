SPECIFICATION Spec
CONSTANTS
    Pwms = {0, 1, 2}
    Tmrs = {0, 1}
    SI_PWM = 2
    SI_TMR = 1
PROPERTIES ImplementsKept KeptInTheEnd
